---- MODULE Spec2Model ----
\* Formify: ordering of fields within a form and of steps within a process,
\* response ingest, post-commit broadcasting and the process workflow views.
\*
\* The database is modelled as committed tables (what any other request can
\* read) plus the working copy of the one request that is running: inside
\* transaction.atomic() writes go to the working copy and reach the committed
\* table at commit; outside a transaction every write is committed at once.
EXTENDS Integers, Sequences, FiniteSets, TLC

\* ---------------------------------------------------------------- bounds
NumFields == 3
NumSteps == 3

FieldIds == 1..NumFields
StepIds == 1..NumSteps
Forms == {"formA", "formB"}
Processes == {"procP", "procQ"}

\* the value the code parks rows at while it renumbers the others
SENTINEL == 999999

\* order numbers a reorder request may ask for: 0 (too small) up to one past
\* the largest possible sibling count (too large)
NewOrders == 0..(NumFields + 1)
NewStepOrders == 0..(NumSteps + 1)

VARIABLES
    fields,     \* committed Field rows: id -> [form, order_num]
    wfields,    \* Field rows as the running request sees them
    steps,      \* committed ProcessStep rows: id -> [process, order_num]
    wsteps,     \* ProcessStep rows as the running request sees them
    scope,      \* the table this run's requests work on: "fields" or "steps"
    pc,         \* where the running request is ("idle": none is running)
    cur,        \* the running request's local variables
    result,     \* outcome of the last finished request
    required,   \* ids of the fields with is_required = True
    active,     \* the forms with is_active = True
    responses,  \* committed Response rows: id -> [form]
    wresponses, \* Response rows as the running request sees them
    answers,    \* committed Answer rows: set of [response, field, value]
    wanswers,   \* Answer rows as the running request sees them
    queue,      \* transaction.on_commit callbacks of the open transaction
    sent,       \* report.update messages the running or last request delivered
    processes,  \* Process rows: id -> [is_public, access_password, process_type]
    reply,      \* the HTTP response of the last workflow request
    form_rows,  \* Form rows: id -> [is_public, access_password, is_active]
    access,     \* the last validate_form_access call and how it ended
    reports,    \* Report rows: id -> [form, type, schedule_type, delivery_method,
                \*                     next_run, is_active]
    clock,      \* timezone.now(), in days
    sweep,      \* the run_due_reports task: where it is and how it ended
    last_run,   \* the last run_once call and how it ended
    mail,       \* created_by.email of the reports' owner and DEFAULT_FROM_EMAIL
    submitted_by, \* per form, submitted_by of its responses, newest first
    conns,      \* websocket connections: channel -> what the consumer holds
    groups      \* the channel layer's groups: form -> channels

ingestVars == <<required, active, responses, wresponses, answers, wanswers, queue, sent>>

orderVars == <<fields, wfields, steps, wsteps, scope>>

accessVars == <<processes, reply>>

formVars == <<form_rows, access>>

reportVars == <<reports, clock, sweep, last_run, mail, submitted_by>>

liveVars == <<conns, groups>>

auxVars == <<formVars, reportVars, liveVars>>

vars == <<fields, wfields, steps, wsteps, scope, pc, cur, result,
          required, active, responses, wresponses, answers, wanswers, queue, sent,
          processes, reply, form_rows, access,
          reports, clock, sweep, last_run, mail, submitted_by, conns, groups>>

\* ---------------------------------------------------------------- rows
NoRows == [x \in {} |-> 0]

Insert(t, id, row) == [x \in (DOMAIN t) \cup {id} |-> IF x = id THEN row ELSE t[x]]

Remove(t, id) == [x \in (DOMAIN t) \ {id} |-> t[x]]

SetOrder(t, id, v) == [t EXCEPT ![id].order_num = v]

Max(S) == CHOOSE m \in S : \A x \in S : x <= m

\* Field rows of one form / ProcessStep rows of one process
FormFields(t, f) == {i \in DOMAIN t : t[i].form = f}

ProcessSteps(t, p) == {i \in DOMAIN t : t[i].process = p}

\* Meta.unique_together = ['form', 'order_num']: writing order v to row id is
\* refused when another row of the same form holds v
FieldUniqueViolation(t, id, v) ==
    \E j \in FormFields(t, t[id].form) \ {id} : t[j].order_num = v

\* Meta.unique_together = ['process', 'order_num']
StepUniqueViolation(t, id, v) ==
    \E j \in ProcessSteps(t, t[id].process) \ {id} : t[j].order_num = v

\* .order_by('order_num') over a set of rows of table t, as a sequence of ids
RECURSIVE OrderBy(_, _)
OrderBy(t, S) ==
    IF S = {} THEN <<>>
    ELSE LET m == CHOOSE i \in S : \A j \in S : t[i].order_num <= t[j].order_num
         IN <<m>> \o OrderBy(t, S \ {m})

\* slip: the aggregate taken over the fields of every form
FieldMaxOrder_allforms(t, f) ==
    IF DOMAIN t = {} THEN 0 ELSE Max({t[i].order_num : i \in DOMAIN t})

\* aggregate(Max('order_num'))['max_order'] or 0
FieldMaxOrder(t, f) ==
    IF FormFields(t, f) = {} THEN 0
    ELSE Max({t[i].order_num : i \in FormFields(t, f)})

\* ProcessRepository.get_max_order_for_process
get_max_order_for_process(t, p) ==
    IF ProcessSteps(t, p) = {} THEN 0
    ELSE Max({t[i].order_num : i \in ProcessSteps(t, p)})

\* slip: the new field skips a number
DefaultOrderNum_skip(max_order) == max_order + 2

\* create_field: field_data['order_num'] = max_order + 1
DefaultOrderNum(max_order) == max_order + 1

\* delete_field, first loop: remaining_field.order_num = 999999 + i
ParkedOrder(i) == SENTINEL + i

\* slip: the later siblings are written back to the numbers they had
RenumberedOrder_same(deleted_order, i) == deleted_order + i + 1

\* delete_field, second loop: remaining_field.order_num = field.order_num + i
RenumberedOrder(deleted_order, i) == deleted_order + i

\* reorder_steps_after_delete, first loop: step.order_num = 999999 + i
StepParkedOrder(i) == SENTINEL + i

\* reorder_steps_after_delete, second loop: step.order_num = deleted_order + i
StepRenumberedOrder(deleted_order, i) == deleted_order + i

\* slip: the lower check lets 0 through
FieldOrderInvalid_zero(new_order, max_order) == new_order < 0 \/ new_order > max_order

\* reorder_field: new_order < 1, or new_order > max_order where max_order is
\* the count of the form's fields
FieldOrderInvalid(new_order, max_order) == new_order < 1 \/ new_order > max_order

\* reorder_process_step: new_order < 1, or new_order > max_order where
\* max_order is the largest order_num of the process
StepOrderInvalid(new_order, max_order) == new_order < 1 \/ new_order > max_order

\* ---------------------------------------------------------------- locals
NoCur == [id |-> 0, parent |-> "none", old_order |-> 0, new_order |-> 0,
          remaining |-> <<>>, i |-> 0, pending |-> {}, answers_data |-> <<>>]

Result(op, status, id, parent, old, new) ==
    [op |-> op, status |-> status, id |-> id, parent |-> parent,
     old_order |-> old, new_order |-> new]

\* an HTTP response: the request it answers (op, process, password), the
\* status, whether the body is a 'detail' message or data, the step ids, step
\* counts or response id of the data, and the keys is_completed, form,
\* completion flags, percentage and is_complete where the body has them
Reply(op, p, password, status, body, data) ==
    [op |-> op, process |-> p, password |-> password, status |-> status,
     body |-> body, data |-> data, is_completed |-> "absent", form |-> "absent",
     flags |-> <<>>, percentage |-> "absent", is_complete |-> "absent",
     step |-> 0]

\* no workflow request has been answered yet
NoReply == Reply("none", "none", "", 0, "detail", <<>>)

\* validate_form_access has not been called yet
NoAccess == [form |-> "none", password |-> "", outcome |-> "none"]

\* run_due_reports is not running and has not run yet
NoSweep == [pc |-> "idle", now |-> 0, due |-> <<>>, ran |-> 0, executed |-> <<>>,
            outcome |-> "none", returned |-> 0]

\* run_once has not been called yet
NoRun == [report |-> 0, now |-> 0, status |-> "none", payload |-> "none",
          delivery |-> "None", channel |-> "none", delivered |-> FALSE,
          by |-> "none"]

\* no report, no mail setting, no clock: the run does no reporting
NoReports ==
    /\ reports = NoRows
    /\ clock = 0
    /\ sweep = NoSweep
    /\ last_run = NoRun
    /\ mail = [owner_email |-> "", DEFAULT_FROM_EMAIL |-> "None"]
    /\ submitted_by = NoRows

\* no websocket connection: the run has no live report channel
NoLive ==
    /\ conns = NoRows
    /\ groups = NoRows

\* no request has finished yet, or one is running
NoResult == Result("none", "none", 0, "none", 0, 0)

\* Field requests touch only Field rows and ProcessStep requests only
\* ProcessStep rows, so a run exercises one of the two tables.
Init ==
    /\ scope \in {"fields", "steps"}
    /\ fields = NoRows
    /\ wfields = NoRows
    /\ steps = NoRows
    /\ wsteps = NoRows
    /\ pc = "idle"
    /\ cur = NoCur
    /\ result = NoResult
    /\ required = {}
    /\ active = Forms
    /\ responses = NoRows
    /\ wresponses = NoRows
    /\ answers = {}
    /\ wanswers = {}
    /\ queue = {}
    /\ sent = {}
    /\ processes = NoRows
    /\ reply = NoReply
    /\ form_rows = NoRows
    /\ access = NoAccess
    /\ NoReports
    /\ NoLive

\* ================================================================ fields
\* FieldService.create_field without 'order_num' in field_data
create_field(id, f) ==
    /\ scope = "fields"
    /\ pc = "idle"
    /\ id \notin DOMAIN fields
    /\ LET max_order == FieldMaxOrder(fields, f)
           row == [form |-> f, order_num |-> DefaultOrderNum(max_order)]
           t == Insert(fields, id, row)
       IN IF FieldUniqueViolation(t, id, row.order_num)
          THEN /\ result' = Result("create_field", "IntegrityError", id, f, 0,
                                   row.order_num)
               /\ UNCHANGED <<fields, wfields>>
          ELSE /\ fields' = t
               /\ wfields' = t
               /\ result' = Result("create_field", "ok", id, f, 0, row.order_num)
    /\ UNCHANGED <<steps, wsteps, scope, pc, cur>>
    /\ UNCHANGED <<ingestVars, accessVars, auxVars>>

\* the transaction of the running request rolls back with an IntegrityError
FieldRollback(op) ==
    /\ wfields' = fields
    /\ pc' = "idle"
    /\ result' = Result(op, "IntegrityError", cur.id, cur.parent, cur.old_order, cur.new_order)
    /\ cur' = NoCur
    /\ UNCHANGED <<fields, steps, wsteps, scope>>

\* the transaction of the running request commits
FieldCommit(op, t) ==
    /\ fields' = t
    /\ wfields' = t
    /\ pc' = "idle"
    /\ result' = Result(op, "ok", cur.id, cur.parent, cur.old_order, cur.new_order)
    /\ cur' = NoCur
    /\ UNCHANGED <<steps, wsteps, scope>>

\* FieldService.delete_field: look the field up, open the transaction and
\* evaluate remaining_fields
delete_field_begin(id) ==
    /\ scope = "fields"
    /\ pc = "idle"
    /\ id \in DOMAIN fields
    /\ LET d == fields[id].order_num
           rem == {j \in FormFields(fields, fields[id].form) : fields[j].order_num > d}
       IN cur' = [NoCur EXCEPT !.id = id, !.parent = fields[id].form,
                               !.old_order = d,
                               !.remaining = OrderBy(fields, rem)]
    /\ pc' = "df_park"
    /\ UNCHANGED <<fields, wfields, steps, wsteps, scope, result>>
    /\ UNCHANGED <<ingestVars, accessVars, auxVars>>

\* first loop: remaining_field.order_num = 999999 + i; save
delete_field_park ==
    /\ pc = "df_park"
    /\ cur.i < Len(cur.remaining)
    /\ LET r == cur.remaining[cur.i + 1]
           v == ParkedOrder(cur.i)
       IN IF FieldUniqueViolation(wfields, r, v)
          THEN FieldRollback("delete_field")
          ELSE /\ wfields' = SetOrder(wfields, r, v)
               /\ cur' = [cur EXCEPT !.i = cur.i + 1]
               /\ UNCHANGED <<fields, steps, wsteps, scope, pc, result>>
    /\ UNCHANGED <<ingestVars, accessVars, auxVars>>

\* field.delete()
delete_field_delete ==
    /\ pc = "df_park"
    /\ cur.i = Len(cur.remaining)
    /\ wfields' = Remove(wfields, cur.id)
    /\ cur' = [cur EXCEPT !.i = 0]
    /\ pc' = "df_renum"
    /\ UNCHANGED <<fields, steps, wsteps, scope, result>>
    /\ UNCHANGED <<ingestVars, accessVars, auxVars>>

\* second loop: remaining_field.order_num = field.order_num + i; save, and
\* the commit at the end of the with block
delete_field_renumber ==
    /\ pc = "df_renum"
    /\ IF cur.i < Len(cur.remaining)
       THEN LET r == cur.remaining[cur.i + 1]
                v == RenumberedOrder(cur.old_order, cur.i)
            IN IF FieldUniqueViolation(wfields, r, v)
               THEN FieldRollback("delete_field")
               ELSE /\ wfields' = SetOrder(wfields, r, v)
                    /\ cur' = [cur EXCEPT !.i = cur.i + 1]
                    /\ UNCHANGED <<fields, steps, wsteps, scope, pc, result>>
       ELSE FieldCommit("delete_field", wfields)
    /\ UNCHANGED <<ingestVars, accessVars, auxVars>>

\* reorder_field: the two range checks that raise ValidationError
reorder_field_invalid(id, new_order) ==
    /\ scope = "fields"
    /\ pc = "idle"
    /\ id \in DOMAIN fields
    /\ FieldOrderInvalid(new_order, Cardinality(FormFields(fields, fields[id].form)))
    /\ result' = Result("reorder_field", "ValidationError", id, fields[id].form,
                        fields[id].order_num, new_order)
    /\ UNCHANGED <<fields, wfields, steps, wsteps, scope, pc, cur>>
    /\ UNCHANGED <<ingestVars, accessVars, auxVars>>

\* slip: the bulk UPDATE without its form filter
ShiftRange_anyform(t, f, id, old_order, new_order) ==
    IF new_order > old_order
    THEN {j \in DOMAIN t \ {id} :
            t[j].order_num > old_order /\ t[j].order_num <= new_order}
    ELSE {j \in DOMAIN t \ {id} :
            t[j].order_num >= new_order /\ t[j].order_num < old_order}

\* the rows the bulk UPDATE of reorder_field selects
ShiftRange(t, f, id, old_order, new_order) ==
    IF new_order > old_order
    THEN {j \in FormFields(t, f) \ {id} :
            t[j].order_num > old_order /\ t[j].order_num <= new_order}
    ELSE {j \in FormFields(t, f) \ {id} :
            t[j].order_num >= new_order /\ t[j].order_num < old_order}

\* F('order_num') - 1 when moving later, + 1 when moving earlier
ShiftDelta(old_order, new_order) == IF new_order > old_order THEN 0 - 1 ELSE 1

\* reorder_field with a valid target: new_order = old_order returns at once;
\* otherwise the field is parked at 999999 and the bulk UPDATE starts
reorder_field_begin(id, new_order) ==
    /\ scope = "fields"
    /\ pc = "idle"
    /\ id \in DOMAIN fields
    /\ ~FieldOrderInvalid(new_order, Cardinality(FormFields(fields, fields[id].form)))
    /\ LET old_order == fields[id].order_num
       IN IF new_order = old_order
          THEN /\ result' = Result("reorder_field", "ok", id, fields[id].form,
                                   old_order, new_order)
               /\ UNCHANGED <<fields, wfields, steps, wsteps, scope, pc, cur>>
          ELSE IF FieldUniqueViolation(wfields, id, SENTINEL)
          THEN /\ result' = Result("reorder_field", "IntegrityError", id,
                                   fields[id].form, old_order, new_order)
               /\ UNCHANGED <<fields, wfields, steps, wsteps, scope, pc, cur>>
          ELSE LET parked == SetOrder(wfields, id, SENTINEL)
               IN /\ wfields' = parked
                  /\ cur' = [NoCur EXCEPT !.id = id, !.parent = fields[id].form,
                                !.old_order = old_order,
                                !.new_order = new_order,
                                !.pending = ShiftRange(parked, fields[id].form, id,
                                                       old_order, new_order)]
                  /\ pc' = "rf_shift"
                  /\ UNCHANGED <<fields, steps, wsteps, scope, result>>
    /\ UNCHANGED <<ingestVars, accessVars, auxVars>>

\* one row of the bulk UPDATE; the database picks the row order
reorder_field_shift(r) ==
    /\ pc = "rf_shift"
    /\ r \in cur.pending
    /\ LET v == wfields[r].order_num + ShiftDelta(cur.old_order, cur.new_order)
       IN IF FieldUniqueViolation(wfields, r, v)
          THEN FieldRollback("reorder_field")
          ELSE /\ wfields' = SetOrder(wfields, r, v)
               /\ cur' = [cur EXCEPT !.pending = cur.pending \ {r}]
               /\ UNCHANGED <<fields, steps, wsteps, scope, pc, result>>
    /\ UNCHANGED <<ingestVars, accessVars, auxVars>>

\* field.order_num = new_order; save, and the commit
reorder_field_place ==
    /\ pc = "rf_shift"
    /\ cur.pending = {}
    /\ IF FieldUniqueViolation(wfields, cur.id, cur.new_order)
       THEN FieldRollback("reorder_field")
       ELSE FieldCommit("reorder_field", SetOrder(wfields, cur.id, cur.new_order))
    /\ UNCHANGED <<ingestVars, accessVars, auxVars>>

FieldNext ==
    \/ \E id \in FieldIds, f \in Forms : create_field(id, f)
    \/ \E id \in FieldIds : delete_field_begin(id)
    \/ delete_field_park
    \/ delete_field_delete
    \/ delete_field_renumber
    \/ \E id \in FieldIds, n \in NewOrders : reorder_field_invalid(id, n)
    \/ \E id \in FieldIds, n \in NewOrders : reorder_field_begin(id, n)
    \/ \E r \in FieldIds : reorder_field_shift(r)
    \/ reorder_field_place

\* ================================================================ steps
\* the transaction of the running request rolls back with an IntegrityError
StepRollback(op) ==
    /\ wsteps' = steps
    /\ pc' = "idle"
    /\ result' = Result(op, "IntegrityError", cur.id, cur.parent, cur.old_order, cur.new_order)
    /\ cur' = NoCur
    /\ UNCHANGED <<steps, fields, wfields, scope>>

\* the transaction of the running request commits
StepCommit(op, t) ==
    /\ steps' = t
    /\ wsteps' = t
    /\ pc' = "idle"
    /\ result' = Result(op, "ok", cur.id, cur.parent, cur.old_order, cur.new_order)
    /\ cur' = NoCur
    /\ UNCHANGED <<fields, wfields, scope>>

\* ProcessStepService.create_process_step without 'order_num' in step_data
create_process_step(id, p) ==
    /\ scope = "steps"
    /\ pc = "idle"
    /\ id \notin DOMAIN steps
    /\ LET max_order == get_max_order_for_process(steps, p)
           row == [process |-> p, order_num |-> max_order + 1]
           t == Insert(steps, id, row)
       IN IF StepUniqueViolation(t, id, row.order_num)
          THEN /\ result' = Result("create_process_step", "IntegrityError", id, p, 0,
                                   row.order_num)
               /\ UNCHANGED <<steps, wsteps>>
          ELSE /\ steps' = t
               /\ wsteps' = t
               /\ result' = Result("create_process_step", "ok", id, p, 0,
                                   row.order_num)
    /\ UNCHANGED <<fields, wfields, scope, pc, cur>>
    /\ UNCHANGED <<ingestVars, accessVars, auxVars>>

\* delete_process_step: process_step_repository.delete(step) runs outside any
\* transaction, so the row is gone for every reader at once; then
\* reorder_steps_after_delete opens its transaction and evaluates
\* steps_to_update
delete_process_step_delete(id) ==
    /\ scope = "steps"
    /\ pc = "idle"
    /\ id \in DOMAIN steps
    /\ LET deleted_order == steps[id].order_num
           p == steps[id].process
           after == Remove(steps, id)
           rem == {j \in ProcessSteps(after, p) : after[j].order_num > deleted_order}
       IN /\ steps' = after
          /\ wsteps' = after
          /\ cur' = [NoCur EXCEPT !.id = id, !.parent = p,
                                  !.old_order = deleted_order,
                                  !.remaining = OrderBy(after, rem)]
    /\ pc' = "ds_park"
    /\ UNCHANGED <<fields, wfields, scope, result>>
    /\ UNCHANGED <<ingestVars, accessVars, auxVars>>

\* reorder_steps_after_delete, first loop: step.order_num = 999999 + i; save
reorder_steps_after_delete_park ==
    /\ pc = "ds_park"
    /\ IF cur.i < Len(cur.remaining)
       THEN LET r == cur.remaining[cur.i + 1]
                v == StepParkedOrder(cur.i)
            IN IF StepUniqueViolation(wsteps, r, v)
               THEN StepRollback("delete_process_step")
               ELSE /\ wsteps' = SetOrder(wsteps, r, v)
                    /\ cur' = [cur EXCEPT !.i = cur.i + 1]
                    /\ UNCHANGED <<steps, fields, wfields, scope, pc, result>>
       ELSE /\ cur' = [cur EXCEPT !.i = 0]
            /\ pc' = "ds_renum"
            /\ UNCHANGED <<steps, wsteps, fields, wfields, scope, result>>
    /\ UNCHANGED <<ingestVars, accessVars, auxVars>>

\* second loop: step.order_num = deleted_order + i; save, and the commit
reorder_steps_after_delete_renumber ==
    /\ pc = "ds_renum"
    /\ IF cur.i < Len(cur.remaining)
       THEN LET r == cur.remaining[cur.i + 1]
                v == StepRenumberedOrder(cur.old_order, cur.i)
            IN IF StepUniqueViolation(wsteps, r, v)
               THEN StepRollback("delete_process_step")
               ELSE /\ wsteps' = SetOrder(wsteps, r, v)
                    /\ cur' = [cur EXCEPT !.i = cur.i + 1]
                    /\ UNCHANGED <<steps, fields, wfields, scope, pc, result>>
       ELSE StepCommit("delete_process_step", wsteps)
    /\ UNCHANGED <<ingestVars, accessVars, auxVars>>

\* reorder_process_step: the two range checks that raise ValidationError
reorder_process_step_invalid(id, new_order) ==
    /\ scope = "steps"
    /\ pc = "idle"
    /\ id \in DOMAIN steps
    /\ StepOrderInvalid(new_order,
                        get_max_order_for_process(steps, steps[id].process))
    /\ result' = Result("reorder_process_step", "ValidationError", id,
                        steps[id].process, steps[id].order_num, new_order)
    /\ UNCHANGED <<fields, wfields, steps, wsteps, scope, pc, cur>>
    /\ UNCHANGED <<ingestVars, accessVars, auxVars>>

\* the rows the bulk UPDATE of reorder_steps_for_move selects
StepShiftRange(t, p, id, old_order, new_order) ==
    IF new_order > old_order
    THEN {j \in ProcessSteps(t, p) \ {id} :
            t[j].order_num > old_order /\ t[j].order_num <= new_order}
    ELSE {j \in ProcessSteps(t, p) \ {id} :
            t[j].order_num >= new_order /\ t[j].order_num < old_order}

\* F('order_num') - 1 when moving later, + 1 otherwise
StepShiftDelta(old_order, new_order) == IF new_order > old_order THEN 0 - 1 ELSE 1

\* reorder_process_step with a valid target, up to the start of the bulk
\* UPDATE of reorder_steps_for_move: the step is parked at 999999
reorder_process_step_begin(id, new_order) ==
    /\ scope = "steps"
    /\ pc = "idle"
    /\ id \in DOMAIN steps
    /\ ~StepOrderInvalid(new_order,
                         get_max_order_for_process(steps, steps[id].process))
    /\ LET old_order == steps[id].order_num
       IN IF StepUniqueViolation(wsteps, id, SENTINEL)
          THEN /\ result' = Result("reorder_process_step", "IntegrityError", id,
                                   steps[id].process, old_order, new_order)
               /\ UNCHANGED <<fields, wfields, steps, wsteps, scope, pc, cur>>
          ELSE LET parked == SetOrder(wsteps, id, SENTINEL)
               IN /\ wsteps' = parked
                  /\ cur' = [NoCur EXCEPT !.id = id, !.parent = steps[id].process,
                                !.old_order = old_order,
                                !.new_order = new_order,
                                !.pending = StepShiftRange(parked, steps[id].process,
                                                           id, old_order, new_order)]
                  /\ pc' = "rs_shift"
                  /\ UNCHANGED <<steps, fields, wfields, scope, result>>
    /\ UNCHANGED <<ingestVars, accessVars, auxVars>>

\* one row of the bulk UPDATE; the database picks the row order
reorder_steps_for_move_shift(r) ==
    /\ pc = "rs_shift"
    /\ r \in cur.pending
    /\ LET v == wsteps[r].order_num + StepShiftDelta(cur.old_order, cur.new_order)
       IN IF StepUniqueViolation(wsteps, r, v)
          THEN StepRollback("reorder_process_step")
          ELSE /\ wsteps' = SetOrder(wsteps, r, v)
               /\ cur' = [cur EXCEPT !.pending = cur.pending \ {r}]
               /\ UNCHANGED <<steps, fields, wfields, scope, pc, result>>
    /\ UNCHANGED <<ingestVars, accessVars, auxVars>>

\* ProcessStep.objects.filter(id=step_id).update(order_num=new_order), and
\* the commit
reorder_steps_for_move_place ==
    /\ pc = "rs_shift"
    /\ cur.pending = {}
    /\ IF StepUniqueViolation(wsteps, cur.id, cur.new_order)
       THEN StepRollback("reorder_process_step")
       ELSE StepCommit("reorder_process_step", SetOrder(wsteps, cur.id, cur.new_order))
    /\ UNCHANGED <<ingestVars, accessVars, auxVars>>

StepNext ==
    \/ \E id \in StepIds, p \in Processes : create_process_step(id, p)
    \/ \E id \in StepIds : delete_process_step_delete(id)
    \/ reorder_steps_after_delete_park
    \/ reorder_steps_after_delete_renumber
    \/ \E id \in StepIds, n \in NewStepOrders : reorder_process_step_invalid(id, n)
    \/ \E id \in StepIds, n \in NewStepOrders : reorder_process_step_begin(id, n)
    \/ \E r \in StepIds : reorder_steps_for_move_shift(r)
    \/ reorder_steps_for_move_place

Next == FieldNext \/ StepNext

Spec == Init /\ [][Next]_vars

\* ================================================================ ingest
NumResponses == 2

MaxAnswers == 2

ResponseIds == 1..NumResponses

Values == {"v"}

\* the Field rows of two forms: formA has two fields, formB has one
IngestFields ==
    (1 :> [form |-> "formA", order_num |-> 1]) @@
    (2 :> [form |-> "formA", order_num |-> 2]) @@
    (3 :> [form |-> "formB", order_num |-> 1])

\* the field ids a caller may send; 0 is the id of no Field row
SubmittedFieldIds == DOMAIN IngestFields \cup {0}

AnswerData == [field_id : SubmittedFieldIds, value : Values]

\* answers_data: a list of {'field_id', 'value'} dicts
AnswersData == UNION {[1..n -> AnswerData] : n \in 0..MaxAnswers}

\* Response.id default uuid.uuid4: an id no row has
NewResponseId(t) == CHOOSE r \in ResponseIds \ DOMAIN t :
                        \A q \in ResponseIds \ DOMAIN t : r <= q

\* answered_field_ids = {answer['field_id'] for answer in answers_data}
answered_field_ids(answers_data) ==
    {answers_data[k].field_id : k \in DOMAIN answers_data}

\* required_fields = Field.objects.filter(form=form, is_required=True), and
\* the fields of it that are not in answered_field_ids
missing_required_fields(f, answers_data) ==
    {i \in FormFields(fields, f) \cap required :
        i \notin answered_field_ids(answers_data)}

\* slip: the known ids are taken from required_fields
invalid_field_ids_required(f, answers_data) ==
    {answers_data[k].field_id : k \in DOMAIN answers_data} \
        (FormFields(fields, f) \cap required)

\* form_field_ids = the ids of form.fields.all(), and the submitted ids that
\* are not among them
invalid_field_ids(f, answers_data) ==
    {answers_data[k].field_id : k \in DOMAIN answers_data} \ FormFields(fields, f)

\* Field.objects.get(id=field_id, form_id=form_id) raises Field.DoesNotExist
FieldDoesNotExist(field_id, f) == field_id \notin FormFields(fields, f)

\* Answer unique_together = ['response', 'field']
AnswerUniqueViolation(A, r, field_id) ==
    \E a \in A : a.response = r /\ a.field = field_id

\* the report.update message of one signal; response, field, model and signal
\* name the row and the write that raised the signal
Message(f, model, signal, r, field_id) ==
    [form |-> f, model |-> model, signal |-> signal, response |-> r,
     field |-> field_id]

\* slip: the receiver broadcasts at once
on_commit_broadcast_now(q, s, m, in_atomic) == [queue |-> q, sent |-> s \cup {m}]

\* _on_commit_broadcast: transaction.on_commit runs the callback at once when
\* no transaction is open, and keeps it for the commit otherwise
on_commit_broadcast(q, s, m, in_atomic) ==
    IF in_atomic THEN [queue |-> q \cup {m}, sent |-> s]
    ELSE [queue |-> q, sent |-> s \cup {m}]

InitIngest ==
    /\ scope = "ingest"
    /\ fields = IngestFields
    /\ wfields = IngestFields
    /\ steps = NoRows
    /\ wsteps = NoRows
    /\ pc = "idle"
    /\ cur = NoCur
    /\ result = NoResult
    /\ required \in SUBSET FormFields(IngestFields, "formA")
    /\ active \in {Forms, {"formA"}}
    /\ responses = NoRows
    /\ wresponses = NoRows
    /\ answers = {}
    /\ wanswers = {}
    /\ queue = {}
    /\ sent = {}
    /\ processes = NoRows
    /\ reply = NoReply
    /\ form_rows = NoRows
    /\ access = NoAccess
    /\ NoReports
    /\ NoLive

\* slip: the exception leaves the block without undoing its writes
IngestRollback_keep(op, status) ==
    /\ responses' = wresponses
    /\ answers' = wanswers
    /\ queue' = {}
    /\ pc' = "idle"
    /\ cur' = NoCur
    /\ result' = Result(op, status, 0, cur.parent, 0, 0)
    /\ UNCHANGED <<wresponses, wanswers, sent>>

\* an exception leaves transaction.atomic(): the writes are undone and the
\* on_commit callbacks are dropped
IngestRollback(op, status) ==
    /\ wresponses' = responses
    /\ wanswers' = answers
    /\ queue' = {}
    /\ pc' = "idle"
    /\ cur' = NoCur
    /\ result' = Result(op, status, 0, cur.parent, 0, 0)
    /\ UNCHANGED <<responses, answers, sent>>

\* transaction.atomic() exits normally: the writes R, A become visible and the
\* on_commit callbacks q run, added to the messages s already out
IngestCommit(op, id, R, A, q, s) ==
    /\ responses' = R
    /\ wresponses' = R
    /\ answers' = A
    /\ wanswers' = A
    /\ queue' = {}
    /\ sent' = s \cup q
    /\ pc' = "idle"
    /\ cur' = NoCur
    /\ result' = Result(op, "ok", id, cur.parent, 0, 0)

\* a request fails before it wrote anything
IngestReject(op, status) ==
    /\ pc' = "idle"
    /\ cur' = NoCur
    /\ result' = Result(op, status, 0, cur.parent, 0, 0)
    /\ UNCHANGED <<responses, wresponses, answers, wanswers, queue, sent>>

\* Response.objects.create(form_id=form_id, ...) inside the atomic block, and
\* its post_save signal; with no answers to create the block is left at once
ResponseCreate(op, next_pc) ==
    LET r == NewResponseId(wresponses)
        R == Insert(wresponses, r, [form |-> cur.parent])
        b == on_commit_broadcast(queue, sent,
                 Message(cur.parent, "Response", "post_save", r, 0), TRUE)
    IN IF Len(cur.answers_data) = 0
       THEN IngestCommit(op, r, R, wanswers, b.queue, b.sent)
       ELSE /\ wresponses' = R
            /\ queue' = b.queue
            /\ sent' = b.sent
            /\ cur' = [cur EXCEPT !.id = r, !.i = 1]
            /\ pc' = next_pc
            /\ UNCHANGED <<responses, answers, wanswers, result>>

\* Answer.objects.create(response=response, field=field, value=value) for
\* answers_data[cur.i] and its post_save signal; the block is left after the
\* last answer
AnswerCreate(op) ==
    LET a == cur.answers_data[cur.i]
        row == [response |-> cur.id, field |-> a.field_id, value |-> a.value]
        b == on_commit_broadcast(queue, sent,
                 Message(cur.parent, "Answer", "post_save", cur.id, a.field_id),
                 TRUE)
    IN IF cur.i = Len(cur.answers_data)
       THEN IngestCommit(op, cur.id, wresponses, wanswers \cup {row},
                         b.queue, b.sent)
       ELSE /\ wanswers' = wanswers \cup {row}
            /\ queue' = b.queue
            /\ sent' = b.sent
            /\ cur' = [cur EXCEPT !.i = cur.i + 1]
            /\ UNCHANGED <<responses, wresponses, answers, pc, result>>

\* a caller sends answers_data for form f to response_service's
\* ResponseService.submit_response
submit_response(f, answers_data) ==
    /\ scope \in {"ingest", "answers"}
    /\ pc = "idle"
    /\ ResponseIds \ DOMAIN responses # {}
    /\ pc' = "sr_validate"
    /\ cur' = [NoCur EXCEPT !.parent = f, !.answers_data = answers_data]
    /\ sent' = {}
    /\ result' = NoResult
    /\ UNCHANGED <<required, active, responses, wresponses, answers, wanswers,
                   queue>>
    /\ UNCHANGED <<orderVars, accessVars, auxVars>>

\* response_service's submit_response: the is_active check, the required
\* fields check, the field ids check, then create_with_answers up to its
\* Response.objects.create
submit_response_validate ==
    /\ pc = "sr_validate"
    /\ IF cur.parent \notin active
       THEN IngestReject("submit_response", "FormInactive")
       ELSE IF missing_required_fields(cur.parent, cur.answers_data) # {}
       THEN IngestReject("submit_response", "RequiredMissing")
       ELSE IF invalid_field_ids(cur.parent, cur.answers_data) # {}
       THEN IngestReject("submit_response", "InvalidField")
       ELSE ResponseCreate("submit_response", "cwa_loop")
    /\ UNCHANGED <<required, active>>
    /\ UNCHANGED <<orderVars, accessVars, auxVars>>

\* create_with_answers, one turn of the loop over answers_data
create_with_answers_answer ==
    /\ pc = "cwa_loop"
    /\ LET a == cur.answers_data[cur.i]
       IN IF FieldDoesNotExist(a.field_id, cur.parent)
          THEN IngestRollback("submit_response", "ValueError")
          ELSE IF AnswerUniqueViolation(wanswers, cur.id, a.field_id)
          THEN IngestRollback("submit_response", "IntegrityError")
          ELSE AnswerCreate("submit_response")
    /\ UNCHANGED <<required, active>>
    /\ UNCHANGED <<orderVars, accessVars, auxVars>>

\* a caller sends answers_data for form f to consolidated_services'
\* ResponseService.submit_response
submit_response_consolidated(f, answers_data) ==
    /\ scope \in {"ingest", "answers"}
    /\ pc = "idle"
    /\ ResponseIds \ DOMAIN responses # {}
    /\ pc' = "csr_validate"
    /\ cur' = [NoCur EXCEPT !.parent = f, !.answers_data = answers_data]
    /\ sent' = {}
    /\ result' = NoResult
    /\ UNCHANGED <<required, active, responses, wresponses, answers, wanswers,
                   queue>>
    /\ UNCHANGED <<orderVars, accessVars, auxVars>>

\* consolidated_services' submit_response: Form.objects.get(id=form_id,
\* is_active=True), the empty list check, then the atomic block up to
\* response_repository.create
submit_response_consolidated_validate ==
    /\ pc = "csr_validate"
    /\ IF cur.parent \notin active
       THEN IngestReject("submit_response_consolidated", "FormInactive")
       ELSE IF Len(cur.answers_data) = 0
       THEN IngestReject("submit_response_consolidated", "NoAnswers")
       ELSE ResponseCreate("submit_response_consolidated", "csr_loop")
    /\ UNCHANGED <<required, active>>
    /\ UNCHANGED <<orderVars, accessVars, auxVars>>

\* consolidated_services' submit_response, one turn of the loop over
\* answers_data
submit_response_consolidated_answer ==
    /\ pc = "csr_loop"
    /\ LET a == cur.answers_data[cur.i]
       IN IF FieldDoesNotExist(a.field_id, cur.parent)
          THEN IngestRollback("submit_response_consolidated", "InvalidField")
          ELSE IF AnswerUniqueViolation(wanswers, cur.id, a.field_id)
          THEN IngestRollback("submit_response_consolidated", "IntegrityError")
          ELSE AnswerCreate("submit_response_consolidated")
    /\ UNCHANGED <<required, active>>
    /\ UNCHANGED <<orderVars, accessVars, auxVars>>

\* ResponseService.delete_response: response.delete() opens a transaction
\* and collects the Answer rows that cascade
delete_response(r) ==
    /\ scope \in {"ingest", "answers"}
    /\ pc = "idle"
    /\ r \in DOMAIN responses
    /\ pc' = "dr_cascade"
    /\ cur' = [NoCur EXCEPT !.id = r, !.parent = responses[r].form]
    /\ sent' = {}
    /\ result' = NoResult
    /\ UNCHANGED <<required, active, responses, wresponses, answers, wanswers,
                   queue>>
    /\ UNCHANGED <<orderVars, accessVars, auxVars>>

\* response.delete(): one cascaded Answer row goes, and its post_delete signal
delete_response_answer ==
    /\ pc = "dr_cascade"
    /\ \E a \in wanswers :
       /\ a.response = cur.id
       /\ LET b == on_commit_broadcast(queue, sent,
                       Message(cur.parent, "Answer", "post_delete", cur.id,
                               a.field), TRUE)
          IN /\ wanswers' = wanswers \ {a}
             /\ queue' = b.queue
             /\ sent' = b.sent
    /\ UNCHANGED <<required, active, responses, wresponses, answers, pc, cur,
                   result>>
    /\ UNCHANGED <<orderVars, accessVars, auxVars>>

\* response.delete(): the Response row goes, its post_delete signal, and the
\* commit
delete_response_commit ==
    /\ pc = "dr_cascade"
    /\ \A a \in wanswers : a.response # cur.id
    /\ LET b == on_commit_broadcast(queue, sent,
                    Message(cur.parent, "Response", "post_delete", cur.id, 0),
                    TRUE)
       IN IngestCommit("delete_response", cur.id, Remove(wresponses, cur.id),
                       wanswers, b.queue, b.sent)
    /\ UNCHANGED <<required, active>>
    /\ UNCHANGED <<orderVars, accessVars, auxVars>>

\* AnswerService.create_answer: no transaction is open, the row is committed
\* by the statement and the post_save callback runs at once
create_answer(r, field_id, value) ==
    /\ scope \in {"ingest", "answers"}
    /\ pc = "idle"
    /\ IF r \notin DOMAIN responses
       THEN /\ result' = Result("create_answer", "Http404", r, "none", 0, 0)
            /\ sent' = {}
            /\ UNCHANGED <<responses, wresponses, answers, wanswers, queue>>
       ELSE IF FieldDoesNotExist(field_id, responses[r].form)
       THEN /\ result' = Result("create_answer", "Http404", r,
                                responses[r].form, 0, 0)
            /\ sent' = {}
            /\ UNCHANGED <<responses, wresponses, answers, wanswers, queue>>
       ELSE IF AnswerUniqueViolation(answers, r, field_id)
       THEN /\ result' = Result("create_answer", "IntegrityError", r,
                                responses[r].form, 0, 0)
            /\ sent' = {}
            /\ UNCHANGED <<responses, wresponses, answers, wanswers, queue>>
       ELSE LET row == [response |-> r, field |-> field_id, value |-> value]
                b == on_commit_broadcast(queue, {},
                         Message(responses[r].form, "Answer", "post_save", r,
                                 field_id), FALSE)
            IN /\ answers' = answers \cup {row}
               /\ wanswers' = answers \cup {row}
               /\ queue' = b.queue
               /\ sent' = b.sent
               /\ result' = Result("create_answer", "ok", r, responses[r].form,
                                   0, 0)
               /\ UNCHANGED <<responses, wresponses>>
    /\ UNCHANGED <<required, active, pc, cur>>
    /\ UNCHANGED <<orderVars, accessVars, auxVars>>

NextIngest ==
    \/ \E f \in Forms, ad \in AnswersData : submit_response(f, ad)
    \/ submit_response_validate
    \/ create_with_answers_answer
    \/ \E f \in Forms, ad \in AnswersData : submit_response_consolidated(f, ad)
    \/ submit_response_consolidated_validate
    \/ submit_response_consolidated_answer
    \/ \E r \in ResponseIds : delete_response(r)
    \/ delete_response_answer
    \/ delete_response_commit
    \/ \E r \in ResponseIds, i \in SubmittedFieldIds, v \in Values :
           create_answer(r, i, v)

SpecIngest == InitIngest /\ [][NextIngest]_vars

\* ================================================================ workflow
ProcessTypes == {"linear", "free"}

\* Process.clean: a process that is not public has an access_password
ProcessRows ==
    {[is_public |-> TRUE, access_password |-> "", process_type |-> t] :
        t \in ProcessTypes}
    \cup {[is_public |-> FALSE, access_password |-> "secret", process_type |-> t] :
        t \in ProcessTypes}

\* the Process rows: procP of any kind, procQ public
WorkflowProcesses == {c \in [Processes -> ProcessRows] : c["procQ"].is_public}

\* the password a caller sends; "" is no password
Passwords == {"", "secret", "wrong"}

\* the ProcessStep rows of two processes, each with the form it points to
WorkflowSteps ==
    (1 :> [process |-> "procP", order_num |-> 1, form |-> "formA"]) @@
    (2 :> [process |-> "procP", order_num |-> 2, form |-> "formB"]) @@
    (3 :> [process |-> "procQ", order_num |-> 1, form |-> "formA"])

\* the ProcessStep rows of a process of three steps, two of them on formB,
\* and a process without steps
WorkflowStepsLong ==
    (1 :> [process |-> "procP", order_num |-> 1, form |-> "formA"]) @@
    (2 :> [process |-> "procP", order_num |-> 2, form |-> "formB"]) @@
    (3 :> [process |-> "procP", order_num |-> 3, form |-> "formB"])

WorkflowLayouts == {WorkflowSteps, WorkflowStepsLong}

WorkflowStepIds == DOMAIN WorkflowSteps \cup DOMAIN WorkflowStepsLong

\* the Form rows the steps point to: formB is public, formA public or private
WorkflowFormRows ==
    {[f \in Forms |->
        IF f = "formB" \/ b
        THEN [is_public |-> TRUE, access_password |-> "", is_active |-> TRUE]
        ELSE [is_public |-> FALSE, access_password |-> "secret", is_active |-> TRUE]] :
     b \in BOOLEAN}

\* FormService.get_public_form: the form if it is public and active, else None
get_public_form(f) ==
    IF form_rows[f].is_public /\ form_rows[f].is_active THEN f ELSE "none"

\* FormService.get_form_with_fields: the form
get_form_with_fields(f) == f

\* the answers a caller sends to complete_step: at most one
StepAnswers == {ad \in AnswersData : Len(ad) <= 1}

\* ProcessStepRepository.get_by_process
get_by_process(p) == OrderBy(steps, ProcessSteps(steps, p))

\* ProcessService.validate_process_access of an active process
validate_process_access(p, password) == processes[p].access_password = password

\* if not process.is_public: password = ...; if not password or not
\* validate_process_access(process_id, password): 401
AccessRefused(p, password) ==
    /\ ~processes[p].is_public
    /\ (password = "" \/ ~validate_process_access(p, password))

\* _is_step_completed: FormResponse.objects.filter(form=step.form).exists()
is_step_completed(id) ==
    \E r \in DOMAIN responses : responses[r].form = steps[id].form

\* the steps of the ordered list ids that are not completed, in order
Incomplete(ids) == SelectSeq(ids, LAMBDA id : ~is_step_completed(id))

\* completed_steps
CompletedCount(ids) == Len(SelectSeq(ids, is_step_completed))

\* how response_service's submit_response for form f ends
submit_outcome(f, answers_data) ==
    IF f \notin active THEN "FormInactive"
    ELSE IF missing_required_fields(f, answers_data) # {} THEN "RequiredMissing"
    ELSE IF invalid_field_ids(f, answers_data) # {} THEN "InvalidField"
    ELSE IF \E k, l \in DOMAIN answers_data :
                k # l /\ answers_data[k].field_id = answers_data[l].field_id
    THEN "IntegrityError"
    ELSE "ok"

InitWorkflow ==
    /\ scope \in {"views", "backup_views"}
    /\ fields = IngestFields
    /\ wfields = IngestFields
    /\ steps \in WorkflowLayouts
    /\ wsteps = steps
    /\ pc = "idle"
    /\ cur = NoCur
    /\ result = NoResult
    /\ required = {1}
    /\ active = Forms
    /\ responses = NoRows
    /\ wresponses = NoRows
    /\ answers = {}
    /\ wanswers = {}
    /\ queue = {}
    /\ sent = {}
    /\ processes \in WorkflowProcesses
    /\ reply = NoReply
    /\ form_rows \in WorkflowFormRows
    /\ access = NoAccess
    /\ NoReports
    /\ NoLive

\* a request that reads: only the reply changes
ReadOnly(r) ==
    /\ reply' = r
    /\ UNCHANGED <<processes, pc, cur, result, orderVars, ingestVars, auxVars>>

\* the body of get_process_steps after the access check
ProcessStepsReply(op, p, password) ==
    Reply(op, p, password, 200, "data", get_by_process(p))

\* views.py get_current_step for a linear process: the first step that is
\* not completed with get_public_form of its form, or 'All steps completed'
CurrentStepReply(op, p, password) ==
    LET todo == Incomplete(get_by_process(p))
    IN IF todo = <<>>
       THEN Reply(op, p, password, 200, "detail", <<>>)
       ELSE [Reply(op, p, password, 200, "data", <<Head(todo)>>) EXCEPT
                !.is_completed = "false",
                !.form = get_public_form(steps[Head(todo)].form)]

\* process_workflow_views.py get_current_step for a linear process: the first
\* step that is not completed with get_form_with_fields of its form, or
\* current_step None, form None, is_completed True
BackupCurrentStepReply(op, p, password) ==
    LET todo == Incomplete(get_by_process(p))
    IN IF todo = <<>>
       THEN [Reply(op, p, password, 200, "data", <<>>) EXCEPT
                !.is_completed = "true", !.form = "none"]
       ELSE [Reply(op, p, password, 200, "data", <<Head(todo)>>) EXCEPT
                !.is_completed = "false",
                !.form = get_form_with_fields(steps[Head(todo)].form)]

\* process_workflow_views.py get_current_step for a free process: every step
\* with its own is_completed
FreeStepsReply(op, p, password) ==
    LET ids == get_by_process(p)
    IN [Reply(op, p, password, 200, "data", ids) EXCEPT
           !.flags = [k \in DOMAIN ids |-> is_step_completed(ids[k])]]

\* completed / total * 100, and 0 when total is 0, as a number of hundredths:
\* the whole hundredths and what is left of the division by den
progress_percentage(completed, total) ==
    IF total > 0
    THEN [hundredths |-> (completed * 10000) \div total,
          rest |-> (completed * 10000) % total, den |-> total]
    ELSE [hundredths |-> 0, rest |-> 0, den |-> 1]

\* round(x, 2): to the nearest hundredth, a tie to the even one
round2(x) ==
    LET up == \/ 2 * x.rest > x.den
              \/ 2 * x.rest = x.den /\ x.hundredths % 2 = 1
    IN [hundredths |-> IF up THEN x.hundredths + 1 ELSE x.hundredths,
        rest |-> 0, den |-> 1]

\* _is_process_complete: all() over the steps, true for no step
is_process_complete(p) ==
    LET ids == get_by_process(p)
    IN \A k \in DOMAIN ids : is_step_completed(ids[k])

Bool(b) == IF b THEN "true" ELSE "false"

\* the body of get_process_progress of views: the percentage as divided
ProgressReply(op, p, password) ==
    LET ids == get_by_process(p)
        total_steps == Len(ids)
        completed_steps == CompletedCount(ids)
    IN [Reply(op, p, password, 200, "data", <<total_steps, completed_steps>>)
        EXCEPT !.percentage = progress_percentage(completed_steps, total_steps),
               !.is_complete = Bool(is_process_complete(p))]

\* the body of get_process_progress of backup_views after the access check:
\* the percentage rounded, is_complete by the two counts
BackupProgressReply(op, p, password) ==
    LET ids == get_by_process(p)
        total_steps == Len(ids)
        completed_steps == CompletedCount(ids)
    IN [Reply(op, p, password, 200, "data", <<total_steps, completed_steps>>)
        EXCEPT !.percentage =
                   round2(progress_percentage(completed_steps, total_steps)),
               !.is_complete = Bool(completed_steps = total_steps)]

\* the 401 of the access check
Unauthorized(op, p, password) == Reply(op, p, password, 401, "detail", <<>>)

\* complete_step of either viewset: the access check of the step's process,
\* then response_service's submit_response for the step's form
CompleteStep(op, id, password, answers_data) ==
    LET p == steps[id].process
        f == steps[id].form
        outcome == submit_outcome(f, answers_data)
        r == NewResponseId(responses)
        rows == {[response |-> r, field |-> answers_data[k].field_id,
                  value |-> answers_data[k].value] : k \in DOMAIN answers_data}
        R == Insert(responses, r, [form |-> f])
    IN /\ id \in DOMAIN steps
       /\ ResponseIds \ DOMAIN responses # {}
       /\ IF AccessRefused(p, password)
          THEN /\ reply' = [Unauthorized(op, p, password) EXCEPT !.step = id]
               /\ UNCHANGED <<result, ingestVars>>
          ELSE IF outcome # "ok"
          THEN /\ reply' = [Reply(op, p, password, 400, "detail", <<>>)
                             EXCEPT !.step = id]
               /\ result' = Result("submit_response", outcome, 0, f, 0, 0)
               /\ sent' = {}
               /\ UNCHANGED <<required, active, responses, wresponses, answers,
                              wanswers, queue>>
          ELSE /\ reply' = [Reply(op, p, password, 201, "data", <<r>>)
                             EXCEPT !.step = id]
               /\ result' = Result("submit_response", "ok", r, f, 0, 0)
               /\ responses' = R
               /\ wresponses' = R
               /\ answers' = answers \cup rows
               /\ wanswers' = answers \cup rows
               /\ sent' = {Message(f, "Response", "post_save", r, 0)} \cup
                          {Message(f, "Answer", "post_save", r, a.field) : a \in rows}
               /\ UNCHANGED <<required, active, queue>>
       /\ UNCHANGED <<processes, pc, cur, orderVars, auxVars>>

\* views.py ProcessWorkflowViewSet.get_process_steps
get_process_steps(p, password) ==
    /\ scope = "views"
    /\ ReadOnly(ProcessStepsReply("get_process_steps", p, password))

\* views.py ProcessWorkflowViewSet.get_current_step
get_current_step(p, password) ==
    /\ scope = "views"
    /\ ReadOnly(IF processes[p].process_type # "linear"
                THEN Reply("get_current_step", p, password, 400, "detail", <<>>)
                ELSE CurrentStepReply("get_current_step", p, password))

\* views.py ProcessWorkflowViewSet.get_process_progress
get_process_progress(p, password) ==
    /\ scope = "views"
    /\ ReadOnly(ProgressReply("get_process_progress", p, password))

\* views.py ProcessWorkflowViewSet.complete_step
complete_step(id, password, answers_data) ==
    /\ scope = "views"
    /\ CompleteStep("complete_step", id, password, answers_data)

\* process_workflow_views.py ProcessWorkflowViewSet.get_process_steps
backup_get_process_steps(p, password) ==
    /\ scope = "backup_views"
    /\ ReadOnly(IF AccessRefused(p, password)
                THEN Unauthorized("get_process_steps", p, password)
                ELSE ProcessStepsReply("get_process_steps", p, password))

\* process_workflow_views.py ProcessWorkflowViewSet.get_current_step
backup_get_current_step(p, password) ==
    /\ scope = "backup_views"
    /\ ReadOnly(IF AccessRefused(p, password)
                THEN Unauthorized("get_current_step", p, password)
                ELSE IF processes[p].process_type = "linear"
                THEN BackupCurrentStepReply("get_current_step", p, password)
                ELSE FreeStepsReply("get_current_step", p, password))

\* process_workflow_views.py ProcessWorkflowViewSet.get_process_progress
backup_get_process_progress(p, password) ==
    /\ scope = "backup_views"
    /\ ReadOnly(IF AccessRefused(p, password)
                THEN Unauthorized("get_process_progress", p, password)
                ELSE BackupProgressReply("get_process_progress", p, password))

\* process_workflow_views.py ProcessWorkflowViewSet.complete_step
backup_complete_step(id, password, answers_data) ==
    /\ scope = "backup_views"
    /\ CompleteStep("complete_step", id, password, answers_data)

NextWorkflow ==
    \/ \E p \in Processes, w \in Passwords : get_process_steps(p, w)
    \/ \E p \in Processes, w \in Passwords : get_current_step(p, w)
    \/ \E p \in Processes, w \in Passwords : get_process_progress(p, w)
    \/ \E id \in WorkflowStepIds, w \in Passwords, ad \in StepAnswers :
           complete_step(id, w, ad)
    \/ \E p \in Processes, w \in Passwords : backup_get_process_steps(p, w)
    \/ \E p \in Processes, w \in Passwords : backup_get_current_step(p, w)
    \/ \E p \in Processes, w \in Passwords : backup_get_process_progress(p, w)
    \/ \E id \in WorkflowStepIds, w \in Passwords, ad \in StepAnswers :
           backup_complete_step(id, w, ad)

SpecWorkflow == InitWorkflow /\ [][NextWorkflow]_vars

\* ================================================================ form access
\* access_password is a nullable, blankable CharField; "NULL" stands for None
StoredPasswords == {"NULL", "", "secret"}

\* the password argument; "NULL" stands for None (the default)
GivenPasswords == {"NULL", "", "secret", "wrong"}

FormRows == [is_public : BOOLEAN, access_password : StoredPasswords,
             is_active : BOOLEAN]

\* Python's `not password`
NotPassword(password) == password \in {"NULL", ""}

\* slip: any non-empty password opens the form
validate_password_any(f, password) == form_rows[f].is_active

\* FormRepository.validate_password: Form.objects.get(id=form_id,
\* is_active=True), then form.access_password == password
validate_password(f, password) ==
    form_rows[f].is_active /\ form_rows[f].access_password = password

\* everything a form access call leaves alone
notFormVars == <<orderVars, pc, cur, result, ingestVars, accessVars,
                 reportVars, liveVars>>

InitAccess ==
    /\ scope = "access"
    /\ fields = NoRows
    /\ wfields = NoRows
    /\ steps = NoRows
    /\ wsteps = NoRows
    /\ pc = "idle"
    /\ cur = NoCur
    /\ result = NoResult
    /\ required = {}
    /\ active = Forms
    /\ responses = NoRows
    /\ wresponses = NoRows
    /\ answers = {}
    /\ wanswers = {}
    /\ queue = {}
    /\ sent = {}
    /\ processes = NoRows
    /\ reply = NoReply
    /\ form_rows \in [Forms -> FormRows]
    /\ access = NoAccess
    /\ NoReports
    /\ NoLive

\* FormService.validate_form_access(form_id, password)
validate_form_access(f, password) ==
    /\ scope = "access"
    /\ access' = [form |-> f, password |-> password, outcome |->
           IF ~form_rows[f].is_active THEN "Form not found or inactive."
           ELSE IF form_rows[f].is_public THEN "granted"
           ELSE IF NotPassword(password) THEN "This form requires a password."
           ELSE IF ~validate_password(f, password) THEN "Invalid password."
           ELSE "granted"]
    /\ UNCHANGED form_rows
    /\ UNCHANGED notFormVars

NextAccess == \E f \in Forms, w \in GivenPasswords : validate_form_access(f, w)

SpecAccess == InitAccess /\ [][NextAccess]_vars

\* ================================================================ reports
\* the last day the clock reaches
MaxDay == 1

\* timedelta(days=7) and timedelta(days=30)
WEEK == 7

MONTH == 30

\* next_run IS NULL
NULL == -1

ReportIds == {1, 2}

REPORT_TYPES == {"summary", "detailed"}

SCHEDULE_TYPES == {"manual", "weekly", "monthly"}

\* 'email' is the one choice of DELIVERY_METHODS; the column takes any string
DeliveryMethods == {"email", "sms"}

\* two reports of one user on formA: uniq_report_per_user_form_type makes
\* their types differ. Report 2 is the newer one.
ReportRows ==
    {t \in [ReportIds -> [form : {"formA"}, type : REPORT_TYPES,
                          schedule_type : SCHEDULE_TYPES,
                          delivery_method : DeliveryMethods,
                          next_run : {NULL} \cup 0..MaxDay,
                          is_active : BOOLEAN]] :
        /\ t[1].type # t[2].type
        /\ t[1].delivery_method = "email"}

\* submitted_by of the responses of a form: none, an anonymous one, a user's
Submitters == {<<>>, <<"None">>, <<"user@x">>}

MailSettings == [owner_email : {"", "owner@x"}, DEFAULT_FROM_EMAIL : {"None", "noreply@x"}]

\* Meta.ordering = ['-created_at'] of Report: the newest first
RECURSIVE NewestFirst(_)
NewestFirst(S) ==
    IF S = {} THEN <<>>
    ELSE LET m == Max(S) IN <<m>> \o NewestFirst(S \ {m})

\* Report.objects.filter(is_active=True, next_run__isnull=False, next_run__lte=now)
due_reports(now) ==
    NewestFirst({r \in DOMAIN reports :
                    /\ reports[r].is_active
                    /\ reports[r].next_run # NULL
                    /\ reports[r].next_run <= now})

\* generate: the payload of the report's type, ValueError for any other type
generate(rep) ==
    IF rep.type = "summary"
    THEN [type |-> "summary", responses |-> <<>>,
          total |-> Len(submitted_by[rep.form])]
    ELSE IF rep.type = "detailed"
    THEN [type |-> "detailed", responses |-> submitted_by[rep.form], total |-> 0]
    ELSE [type |-> "ValueError", responses |-> <<>>, total |-> 0]

DeliveryResult(ok, channel) == [raised |-> FALSE, ok |-> ok, channel |-> channel]

\* an exception that leaves deliver
DeliveryRaised == [raised |-> TRUE, ok |-> FALSE, channel |-> "none"]

\* created_by.email or DEFAULT_FROM_EMAIL
to_email ==
    IF mail.owner_email # "" THEN mail.owner_email ELSE mail.DEFAULT_FROM_EMAIL

\* _deliver_email: no recipient is a failed result; the body of a detailed
\* report joins submitted_by of every response, and str.join raises TypeError
\* on a None, before the try block; send_mail's exceptions are caught
deliver_email(rep, payload, smtp_ok) ==
    IF to_email = "None"
    THEN DeliveryResult(FALSE, "email")
    ELSE IF /\ rep.type = "detailed"
            /\ \E k \in DOMAIN payload.responses : payload.responses[k] = "None"
    THEN DeliveryRaised
    ELSE DeliveryResult(smtp_ok, "email")

deliver(rep, payload, smtp_ok) ==
    IF rep.delivery_method = "email"
    THEN deliver_email(rep, payload, smtp_ok)
    ELSE DeliveryResult(FALSE, rep.delivery_method)

\* compute_initial_next_run
compute_initial_next_run(rep, now) ==
    IF rep.schedule_type = "manual" THEN NULL
    ELSE IF rep.schedule_type = "weekly" THEN now + WEEK
    ELSE IF rep.schedule_type = "monthly" THEN now + MONTH
    ELSE NULL

\* _bump_next_run: the Report table after it
bump_next_run(r, now) ==
    LET nxt == compute_initial_next_run(reports[r], now)
    IN IF reports[r].schedule_type = "manual" \/ nxt = NULL
       THEN reports
       ELSE [reports EXCEPT ![r].next_run = nxt]

\* run_once of a ReportService(now) on the Report object rep with id r:
\* generate, deliver when the report is active, bump; an exception of
\* generate or deliver leaves run_once before the bump
RunOnce(r, rep, now, smtp_ok, by) ==
    LET data == generate(rep)
        delivery == IF rep.is_active THEN deliver(rep, data, smtp_ok)
                    ELSE DeliveryResult(FALSE, "None")
        raised == data.type = "ValueError" \/ delivery.raised
    IN IF raised
       THEN /\ last_run' = [report |-> r, now |-> now, status |-> "raised",
                            payload |-> "none", delivery |-> "None",
                            channel |-> "none", delivered |-> FALSE, by |-> by]
            /\ UNCHANGED reports
       ELSE /\ last_run' = [report |-> r, now |-> now, status |-> "returned",
                            payload |-> data.type,
                            delivery |-> IF ~rep.is_active THEN "None"
                                         ELSE IF delivery.ok THEN "ok" ELSE "failed",
                            channel |-> IF rep.is_active THEN delivery.channel
                                        ELSE "none",
                            delivered |-> rep.is_active /\ delivery.ok, by |-> by]
            /\ reports' = bump_next_run(r, now)

notReportVars == <<orderVars, pc, cur, result, ingestVars, accessVars,
                   formVars, liveVars>>

InitReports ==
    /\ scope = "reports"
    /\ fields = NoRows
    /\ wfields = NoRows
    /\ steps = NoRows
    /\ wsteps = NoRows
    /\ pc = "idle"
    /\ cur = NoCur
    /\ result = NoResult
    /\ required = {}
    /\ active = Forms
    /\ responses = NoRows
    /\ wresponses = NoRows
    /\ answers = {}
    /\ wanswers = {}
    /\ queue = {}
    /\ sent = {}
    /\ processes = NoRows
    /\ reply = NoReply
    /\ form_rows = NoRows
    /\ access = NoAccess
    /\ reports \in ReportRows
    /\ clock = 0
    /\ sweep = NoSweep
    /\ last_run = NoRun
    /\ mail \in MailSettings
    /\ submitted_by \in [{"formA"} -> Submitters]
    /\ NoLive

\* a day passes
tick ==
    /\ clock < MaxDay
    /\ clock' = clock + 1
    /\ UNCHANGED <<reports, sweep, last_run, mail, submitted_by, notReportVars>>

\* run_due_reports up to the loop: now, the service, the due reports
run_due_reports ==
    /\ sweep.pc = "idle"
    /\ sweep' = [pc |-> "loop", now |-> clock, due |-> due_reports(clock),
                 ran |-> 0, executed |-> <<>>, outcome |-> "none",
                 returned |-> 0]
    /\ UNCHANGED <<reports, clock, last_run, mail, submitted_by, notReportVars>>

\* one turn of the loop: svc.run_once(rep) on the row as it was fetched, then
\* ran += 1; an exception of run_once ends the task
run_due_reports_run_once ==
    /\ sweep.pc = "loop"
    /\ sweep.due # <<>>
    /\ \E smtp_ok \in BOOLEAN :
        LET r == Head(sweep.due)
        IN /\ RunOnce(r, reports[r], sweep.now, smtp_ok, "sweep")
           /\ IF last_run'.status = "raised"
              THEN sweep' = [sweep EXCEPT !.pc = "idle", !.outcome = "raised"]
              ELSE sweep' = [sweep EXCEPT !.due = Tail(@), !.ran = @ + 1,
                                          !.executed = Append(@, r)]
    /\ UNCHANGED <<clock, mail, submitted_by, notReportVars>>

\* return {"ran": ran}
run_due_reports_return ==
    /\ sweep.pc = "loop"
    /\ sweep.due = <<>>
    /\ sweep' = [sweep EXCEPT !.pc = "idle", !.outcome = "returned",
                              !.returned = sweep.ran]
    /\ UNCHANGED <<reports, clock, last_run, mail, submitted_by, notReportVars>>

\* run_once called on its own, on a service made now
run_once(r) ==
    /\ sweep.pc = "idle"
    /\ \E smtp_ok \in BOOLEAN : RunOnce(r, reports[r], clock, smtp_ok, "call")
    /\ UNCHANGED <<clock, sweep, mail, submitted_by, notReportVars>>

NextReports ==
    \/ tick
    \/ run_due_reports
    \/ run_due_reports_run_once
    \/ run_due_reports_return
    \/ \E r \in ReportIds : run_once(r)

SpecReports == InitReports /\ [][NextReports]_vars

\* ================================================================ live reports
\* the most messages kept per connection, queued or delivered
MaxMessages == 2

\* channel names of the websocket connections
Channels == {"chan1", "chan2"}

\* the form_id of the URL: formA's id with hyphens and as 32 hex digits,
\* formB's id, the id of no form, and a string that is no UUID
RawIds == {"formA", "formA-hex", "formB", "formZ", "not-a-uuid"}

\* UUID(raw): both spellings give the same id, anything else ValueError
UUID(raw) ==
    IF raw \in {"formA", "formA-hex"} THEN "formA"
    ELSE IF raw \in {"formB", "formZ"} THEN raw
    ELSE "ValueError"

\* who opens the socket, as AuthMiddlewareStack puts it in scope["user"]
Users ==
    [anonymous |-> [is_authenticated |-> FALSE, is_staff |-> FALSE],
     owner     |-> [is_authenticated |-> TRUE, is_staff |-> FALSE],
     staff     |-> [is_authenticated |-> TRUE, is_staff |-> TRUE],
     other     |-> [is_authenticated |-> TRUE, is_staff |-> FALSE]]

\* created_by of every form
FormOwner == "owner"

ReportTypeParams == {"summary", "detailed"}

LiveFormRows == [Forms -> [is_public : BOOLEAN, access_password : {""},
                           is_active : {TRUE}]]

NoConn == [state |-> "none", raw |-> "none", user |-> "none", form_id |-> "none",
           report_type |-> "none", close_code |-> 0, queue |-> <<>>,
           inbox |-> <<>>]

\* _build_payload: the report of report_type on the form, as generate makes it
build_payload(form_id, report_type) == [form |-> form_id, type |-> report_type]

\* a message of send_json
Outbound(type, payload) == [type |-> type, payload |-> payload]

\* the event _broadcast_form sends to the group: _on_commit_broadcast always
\* passes report_type "summary"
report_update_event(f) ==
    [type |-> "report.update", form_id |-> f, report_type |-> "summary"]

\* getattr(self.scope, "user", None): scope is a dict, it has no attribute
\* user, so the default comes back whoever opened the socket
scope_user(u) == "None"

\* _can_view_form: False for no such form, True for a public one, else the
\* user read from the scope must be staff or the creator
can_view_form(form_id, u) ==
    IF form_id \notin DOMAIN form_rows THEN FALSE
    ELSE LET user == scope_user(u)
         IN IF form_rows[form_id].is_public THEN TRUE
            ELSE /\ user # "None"
                 /\ Users[user].is_authenticated
                 /\ (Users[user].is_staff \/ FormOwner = user)

notLiveVars == <<orderVars, pc, cur, result, ingestVars, accessVars,
                 access, reportVars>>

InitLive ==
    /\ scope = "live"
    /\ fields = NoRows
    /\ wfields = NoRows
    /\ steps = NoRows
    /\ wsteps = NoRows
    /\ pc = "idle"
    /\ cur = NoCur
    /\ result = NoResult
    /\ required = {}
    /\ active = Forms
    /\ responses = NoRows
    /\ wresponses = NoRows
    /\ answers = {}
    /\ wanswers = {}
    /\ queue = {}
    /\ sent = {}
    /\ processes = NoRows
    /\ reply = NoReply
    /\ form_rows \in LiveFormRows
    /\ access = NoAccess
    /\ NoReports
    /\ conns = [c \in Channels |-> NoConn]
    /\ groups = [f \in Forms |-> {}]

\* connect up to accept(): close 4404 on a malformed id, close 4403 when
\* _can_view_form says no, else group_add and accept
connect(c, raw, u, report_type) ==
    LET form_id == UUID(raw)
        me == [NoConn EXCEPT !.raw = raw, !.user = u]
    IN /\ conns[c].state = "none"
       /\ IF form_id = "ValueError"
          THEN /\ conns' = [conns EXCEPT ![c] =
                               [me EXCEPT !.state = "closed", !.close_code = 4404]]
               /\ UNCHANGED groups
          ELSE IF ~can_view_form(form_id, u)
          THEN /\ conns' = [conns EXCEPT ![c] =
                               [me EXCEPT !.state = "closed", !.close_code = 4403,
                                          !.form_id = form_id,
                                          !.report_type = report_type]]
               /\ UNCHANGED groups
          ELSE /\ conns' = [conns EXCEPT ![c] =
                               [me EXCEPT !.state = "accepted",
                                          !.form_id = form_id,
                                          !.report_type = report_type]]
               /\ groups' = [groups EXCEPT ![form_id] = @ \cup {c}]
       /\ UNCHANGED <<form_rows, notLiveVars>>

\* the rest of connect: _build_payload and send_json of the init message
connect_init(c) ==
    /\ conns[c].state = "accepted"
    /\ conns' = [conns EXCEPT ![c].state = "open",
                              ![c].inbox = Append(@, Outbound("init",
                                  build_payload(conns[c].form_id,
                                                conns[c].report_type)))]
    /\ UNCHANGED <<groups, form_rows, notLiveVars>>

\* _broadcast_form: group_send puts a report.update event on the channel of
\* every member of the form's group
broadcast_form(f) ==
    /\ groups[f] # {}
    /\ \A c \in groups[f] : Len(conns[c].queue) < MaxMessages
    /\ conns' = [c \in Channels |->
                    IF c \in groups[f]
                    THEN [conns[c] EXCEPT !.queue = Append(@, report_update_event(f))]
                    ELSE conns[c]]
    /\ UNCHANGED <<groups, form_rows, notLiveVars>>

\* report_update: the consumer takes the next event of its channel once
\* connect is over, and sends an update message
report_update(c) ==
    /\ conns[c].state = "open"
    /\ conns[c].queue # <<>>
    /\ Len(conns[c].inbox) < MaxMessages
    /\ conns' = [conns EXCEPT ![c].queue = Tail(@),
                              ![c].inbox = Append(@, Outbound("update",
                                  build_payload(Head(conns[c].queue).form_id,
                                                Head(conns[c].queue).report_type)))]
    /\ UNCHANGED <<groups, form_rows, notLiveVars>>

\* receive_json of {"action": "refresh"}
receive_json(c) ==
    /\ conns[c].state = "open"
    /\ Len(conns[c].inbox) < MaxMessages
    /\ conns' = [conns EXCEPT ![c].inbox = Append(@, Outbound("refresh",
                                  build_payload(conns[c].form_id,
                                                conns[c].report_type)))]
    /\ UNCHANGED <<groups, form_rows, notLiveVars>>

\* disconnect: group_discard when connect got as far as group_name
disconnect(c) ==
    /\ conns[c].state = "open"
    /\ conns' = [conns EXCEPT ![c].state = "closed", ![c].close_code = 1000]
    /\ groups' = [f \in Forms |-> groups[f] \ {c}]
    /\ UNCHANGED <<form_rows, notLiveVars>>

NextLive ==
    \/ \E c \in Channels, raw \in RawIds, u \in DOMAIN Users,
          report_type \in ReportTypeParams : connect(c, raw, u, report_type)
    \/ \E c \in Channels : connect_init(c)
    \/ \E f \in Forms : broadcast_form(f)
    \/ \E c \in Channels : report_update(c)
    \/ \E c \in Channels : receive_json(c)
    \/ \E c \in Channels : disconnect(c)

SpecLive == InitLive /\ [][NextLive]_vars

\* ================================================================ forms
\* what a request may carry for is_public and access_password: the key
\* left out ("absent"), or a value (None is "NULL")
FormData == [is_public : {"absent", "true", "false"},
             access_password : {"absent", "NULL", "", "secret"}]

\* form_data.get(key, default)
Get(data, key, default) == IF data[key] = "absent" THEN default ELSE data[key]

\* not value, for None and for the empty string
Falsy(v) == v \in {"NULL", ""}

\* the row Form.objects.create stores: is_public defaults to True,
\* access_password to NULL, is_active to True
CreatedRow(data) ==
    [is_public |-> Get(data, "is_public", "true") = "true",
     access_password |-> Get(data, "access_password", "NULL"),
     is_active |-> TRUE]

\* setattr of every key that was sent, then save
UpdatedRow(row, data) ==
    [is_public |-> IF data.is_public = "absent" THEN row.is_public
                   ELSE data.is_public = "true",
     access_password |-> Get(data, "access_password", row.access_password),
     is_active |-> row.is_active]

\* FormService.create_form refuses 'not is_public and not access_password',
\* is_public read with default True and access_password with default ''
create_form_refused(data) ==
    /\ Get(data, "is_public", "true") = "false"
    /\ Falsy(Get(data, "access_password", ""))

\* FormService.update_form refuses the same, the defaults being the stored values
update_form_refused(row, data) ==
    /\ ~UpdatedRow(row, data).is_public
    /\ Falsy(Get(data, "access_password", row.access_password))

\* validate_access_password of FormCreateSerializer and FormUpdateSerializer:
\* it runs only when access_password is sent, and reads is_public from the
\* request alone, True when it is not sent
serializer_refused(data) ==
    /\ data.access_password # "absent"
    /\ Get(data, "is_public", "true") = "false"
    /\ Falsy(data.access_password)

notFormTable == <<orderVars, pc, cur, ingestVars, accessVars, access,
                  reportVars, liveVars>>

\* how a form request ends
FormStored(op, f, row) ==
    /\ form_rows' = Insert(form_rows, f, row)
    /\ result' = Result(op, "ok", 0, f, 0, 0)
    /\ UNCHANGED notFormTable

FormRefused(op, f) ==
    /\ result' = Result(op, "ValidationError", 0, f, 0, 0)
    /\ UNCHANGED <<form_rows, notFormTable>>

InitForms ==
    /\ scope = "forms"
    /\ fields = NoRows
    /\ wfields = NoRows
    /\ steps = NoRows
    /\ wsteps = NoRows
    /\ pc = "idle"
    /\ cur = NoCur
    /\ result = NoResult
    /\ required = {}
    /\ active = Forms
    /\ responses = NoRows
    /\ wresponses = NoRows
    /\ answers = {}
    /\ wanswers = {}
    /\ queue = {}
    /\ sent = {}
    /\ processes = NoRows
    /\ reply = NoReply
    /\ form_rows = NoRows
    /\ access = NoAccess
    /\ NoReports
    /\ NoLive

\* FormService.create_form
create_form(f, data) ==
    /\ f \notin DOMAIN form_rows
    /\ IF create_form_refused(data)
       THEN FormRefused("create_form", f)
       ELSE FormStored("create_form", f, CreatedRow(data))

\* FormService.update_form
update_form(f, data) ==
    /\ f \in DOMAIN form_rows
    /\ IF update_form_refused(form_rows[f], data)
       THEN FormRefused("update_form", f)
       ELSE FormStored("update_form", f, UpdatedRow(form_rows[f], data))

\* create of forms.views.FormViewSet: FormCreateSerializer, then
\* serializer.save(created_by=...)
FormViewSet_create(f, data) ==
    /\ f \notin DOMAIN form_rows
    /\ IF serializer_refused(data)
       THEN FormRefused("FormViewSet.create", f)
       ELSE FormStored("FormViewSet.create", f, CreatedRow(data))

\* update and partial_update of forms.views.FormViewSet: FormCreateSerializer,
\* then serializer.save()
FormViewSet_update(f, data) ==
    /\ f \in DOMAIN form_rows
    /\ IF serializer_refused(data)
       THEN FormRefused("FormViewSet.update", f)
       ELSE FormStored("FormViewSet.update", f, UpdatedRow(form_rows[f], data))

\* create of the api/v1 FormViewSet: FormCreateSerializer, then create_form
perform_create(f, data) ==
    /\ f \notin DOMAIN form_rows
    /\ IF serializer_refused(data) \/ create_form_refused(data)
       THEN FormRefused("perform_create", f)
       ELSE FormStored("perform_create", f, CreatedRow(data))

\* update of the api/v1 FormViewSet: FormUpdateSerializer, then update_form
perform_update(f, data) ==
    /\ f \in DOMAIN form_rows
    /\ IF serializer_refused(data) \/ update_form_refused(form_rows[f], data)
       THEN FormRefused("perform_update", f)
       ELSE FormStored("perform_update", f, UpdatedRow(form_rows[f], data))

NextForms ==
    \/ \E f \in Forms, data \in FormData : create_form(f, data)
    \/ \E f \in Forms, data \in FormData : update_form(f, data)
    \/ \E f \in Forms, data \in FormData : FormViewSet_create(f, data)
    \/ \E f \in Forms, data \in FormData : FormViewSet_update(f, data)
    \/ \E f \in Forms, data \in FormData : perform_create(f, data)
    \/ \E f \in Forms, data \in FormData : perform_update(f, data)

SpecForms == InitForms /\ [][NextForms]_vars

\* ================================================================ answers
\* what an update may carry for a foreign key: 0 is the key left out
AnswerUpdateData == [response : ResponseIds \cup {0},
                     field : DOMAIN IngestFields \cup {0}]

ResponseUpdateData == [form : Forms \cup {"absent"}]

\* BaseRepository.update on an Answer: setattr for every key given
UpdatedAnswer(a, data) ==
    [a EXCEPT !.response = IF data.response = 0 THEN @ ELSE data.response,
              !.field = IF data.field = 0 THEN @ ELSE data.field]

\* the Answer rows there can be
StoredAnswers == [response : ResponseIds, field : DOMAIN IngestFields,
                  value : Values]

InitAnswers ==
    /\ scope = "answers"
    /\ fields = IngestFields
    /\ wfields = IngestFields
    /\ steps = NoRows
    /\ wsteps = NoRows
    /\ pc = "idle"
    /\ cur = NoCur
    /\ result = NoResult
    /\ required = {}
    /\ active = Forms
    /\ responses = NoRows
    /\ wresponses = NoRows
    /\ answers = {}
    /\ wanswers = {}
    /\ queue = {}
    /\ sent = {}
    /\ processes = NoRows
    /\ reply = NoReply
    /\ form_rows = NoRows
    /\ access = NoAccess
    /\ NoReports
    /\ NoLive

\* AnswerService.update_answer: the row is fetched, every key of answer_data
\* is set on it and it is saved; the only check is the table's
\* unique_together
update_answer(a, data) ==
    /\ scope = "answers"
    /\ pc = "idle"
    /\ a \in answers
    /\ (data.response = 0 \/ data.response \in DOMAIN responses)
    /\ LET row == UpdatedAnswer(a, data)
       IN IF AnswerUniqueViolation(answers \ {a}, row.response, row.field)
          THEN /\ result' = Result("update_answer", "IntegrityError",
                                   a.response, responses[a.response].form,
                                   a.field, row.field)
               /\ sent' = {}
               /\ UNCHANGED <<answers, wanswers, queue>>
          ELSE LET b == on_commit_broadcast(queue, {},
                            Message(responses[row.response].form, "Answer",
                                    "post_save", row.response, row.field),
                            FALSE)
               IN /\ answers' = (answers \ {a}) \cup {row}
                  /\ wanswers' = (answers \ {a}) \cup {row}
                  /\ queue' = b.queue
                  /\ sent' = b.sent
                  /\ result' = Result("update_answer", "ok", row.response,
                                      responses[row.response].form, a.field,
                                      row.field)
    /\ UNCHANGED <<required, active, responses, wresponses, pc, cur>>
    /\ UNCHANGED <<orderVars, accessVars, auxVars>>

\* ResponseService.update_response: every key of response_data is set on the
\* row and it is saved
update_response(r, data) ==
    /\ scope = "answers"
    /\ pc = "idle"
    /\ r \in DOMAIN responses
    /\ LET f == IF data.form = "absent" THEN responses[r].form ELSE data.form
           R == [responses EXCEPT ![r].form = f]
           b == on_commit_broadcast(queue, {},
                    Message(f, "Response", "post_save", r, 0), FALSE)
       IN /\ responses' = R
          /\ wresponses' = R
          /\ queue' = b.queue
          /\ sent' = b.sent
          /\ result' = Result("update_response", "ok", r, f, 0, 0)
    /\ UNCHANGED <<required, active, answers, wanswers, pc, cur>>
    /\ UNCHANGED <<orderVars, accessVars, auxVars>>

\* AnswerService.delete_answer: the row goes, and its post_delete signal
delete_answer(a) ==
    /\ scope = "answers"
    /\ pc = "idle"
    /\ a \in answers
    /\ LET b == on_commit_broadcast(queue, {},
                    Message(responses[a.response].form, "Answer",
                            "post_delete", a.response, a.field), FALSE)
       IN /\ answers' = answers \ {a}
          /\ wanswers' = answers \ {a}
          /\ queue' = b.queue
          /\ sent' = b.sent
          /\ result' = Result("delete_answer", "ok", a.response,
                              responses[a.response].form, 0, 0)
    /\ UNCHANGED <<required, active, responses, wresponses, pc, cur>>
    /\ UNCHANGED <<orderVars, accessVars, auxVars>>

NextAnswers ==
    \/ \E f \in Forms, ad \in AnswersData : submit_response(f, ad)
    \/ submit_response_validate
    \/ create_with_answers_answer
    \/ \E r \in ResponseIds : delete_response(r)
    \/ delete_response_answer
    \/ delete_response_commit
    \/ \E r \in ResponseIds, i \in SubmittedFieldIds, v \in Values :
           create_answer(r, i, v)
    \/ \E a \in StoredAnswers, data \in AnswerUpdateData :
           update_answer(a, data)
    \/ \E r \in ResponseIds, data \in ResponseUpdateData :
           update_response(r, data)
    \/ \E a \in StoredAnswers : delete_answer(a)

SpecAnswers == InitAnswers /\ [][NextAnswers]_vars

\* ================================================================ field data
\* the largest number an option carries
MaxNum == 1

Nums == 0..MaxNum

\* a JSON value under an option key: the key left out, null, a string, or a
\* number
Absent == [kind |-> "absent", n |-> 0]

None == [kind |-> "None", n |-> 0]

Str == [kind |-> "str", n |-> 0]

Num(n) == [kind |-> "num", n |-> n]

OptionValues == {Absent, None, Str} \cup {Num(n) : n \in Nums}

\* one entry of 'choices': a dict with both keys, a dict that lacks one, or
\* no dict at all
ChoiceKinds == {"full", "no_value", "no_label", "not_dict"}

\* 'choices' left out, or a list of at most one entry
ChoicesValues ==
    {[given |-> FALSE, items |-> <<>>], [given |-> TRUE, items |-> <<>>]} \cup
    {[given |-> TRUE, items |-> <<c>>] : c \in ChoiceKinds}

\* 'allowed_types': left out, [], a list with entries, or a string
AllowedTypesValues == {"absent", "empty", "list", "str"}

\* options = {}: JSONField(default=dict)
EmptyOptions ==
    [choices |-> [given |-> FALSE, items |-> <<>>], min_value |-> Absent,
     max_value |-> Absent, step |-> Absent, allowed_types |-> "absent",
     max_size |-> Absent]

ChoiceTypes == {"select", "radio", "checkbox", "multiselect"}

FieldTypes == ChoiceTypes \cup {"text", "rating", "file", "number"}

\* the options a request may carry for a field type
OptionsFor(field_type) ==
    IF field_type \in ChoiceTypes
    THEN {[EmptyOptions EXCEPT !.choices = c] : c \in ChoicesValues}
    ELSE IF field_type \in {"rating", "number"}
    THEN {[EmptyOptions EXCEPT !.min_value = a, !.max_value = b, !.step = c] :
              a \in OptionValues, b \in OptionValues, c \in OptionValues}
    ELSE IF field_type = "file"
    THEN {[EmptyOptions EXCEPT !.allowed_types = a, !.max_size = b] :
              a \in AllowedTypesValues, b \in OptionValues}
    ELSE {EmptyOptions}

\* options.get(key, default) when the default is a number
GetOr(v, default) == IF v.kind = "absent" THEN Num(default) ELSE v

\* options.get(key): None when the key is left out
GetNone(v) == IF v.kind = "absent" THEN None ELSE v

\* isinstance(v, (int, float))
IsNumber(v) == v.kind = "num"

\* slip: the step of a rating is not looked at
rating_options_nostep(options) ==
    LET min_val == GetOr(options.min_value, 1)
        max_val == GetOr(options.max_value, 5)
    IN IF ~IsNumber(min_val) \/ ~IsNumber(max_val) THEN "ValidationError"
       ELSE IF min_val.n >= max_val.n THEN "ValidationError"
       ELSE "ok"

\* validate_field_options, field_type == 'rating'; step <= 0 on None or a
\* string raises TypeError
rating_options(options) ==
    LET min_val == GetOr(options.min_value, 1)
        max_val == GetOr(options.max_value, 5)
        step == GetOr(options.step, 1)
    IN IF ~IsNumber(min_val) \/ ~IsNumber(max_val) THEN "ValidationError"
       ELSE IF min_val.n >= max_val.n THEN "ValidationError"
       ELSE IF ~IsNumber(step) THEN "TypeError"
       ELSE IF step.n <= 0 THEN "ValidationError"
       ELSE "ok"

\* validate_field_options, the four types with choices
choice_options(options) ==
    LET choices == options.choices.items
    IN IF Len(choices) = 0 THEN "ValidationError"
       ELSE IF \E k \in DOMAIN choices : choices[k] # "full"
       THEN "ValidationError"
       ELSE "ok"

\* validate_field_options, field_type == 'file'
file_options(options) ==
    LET allowed_types == options.allowed_types
        max_size == GetNone(options.max_size)
    IN IF allowed_types \in {"absent", "empty"} THEN "ValidationError"
       ELSE IF allowed_types # "list" THEN "ValidationError"
       ELSE IF max_size # None /\ (~IsNumber(max_size) \/ max_size.n <= 0)
       THEN "ValidationError"
       ELSE "ok"

\* validate_field_options, field_type == 'number'
number_options(options) ==
    LET min_val == GetNone(options.min_value)
        max_val == GetNone(options.max_value)
        step == GetNone(options.step)
    IN IF min_val # None /\ ~IsNumber(min_val) THEN "ValidationError"
       ELSE IF max_val # None /\ ~IsNumber(max_val) THEN "ValidationError"
       ELSE IF min_val # None /\ max_val # None /\ min_val.n >= max_val.n
       THEN "ValidationError"
       ELSE IF step # None /\ (~IsNumber(step) \/ step.n <= 0)
       THEN "ValidationError"
       ELSE "ok"

\* FieldService.validate_field_options: "ok" for return True, else the
\* exception raised
validate_field_options(field_type, options) ==
    IF field_type \in ChoiceTypes THEN choice_options(options)
    ELSE IF field_type = "rating" THEN rating_options(options)
    ELSE IF field_type = "file" THEN file_options(options)
    ELSE IF field_type = "number" THEN number_options(options)
    ELSE "ok"

\* Field.clean, run by Field.save
clean(field_type, options) ==
    IF field_type \in {"select", "checkbox"} /\ Len(options.choices.items) = 0
    THEN "ValidationError"
    ELSE "ok"

\* field_data of a request: order_num NULL and field_type "absent" stand for
\* a key left out.  Requests of the "field_options" runs vary the type and
\* the options
OptionRequests ==
    {[order_num |-> NULL, field_type |-> r[1], options_given |-> TRUE,
      options |-> r[2]] :
         r \in UNION {{<<t, o>> : o \in OptionsFor(t)} : t \in FieldTypes}}
    \cup {[order_num |-> NULL, field_type |-> "absent", options_given |-> TRUE,
           options |-> o] : o \in UNION {OptionsFor(u) : u \in FieldTypes}}
    \cup {[order_num |-> NULL, field_type |-> t, options_given |-> FALSE,
           options |-> EmptyOptions] : t \in FieldTypes \cup {"absent"}}

\* requests of the "field_order" runs vary order_num
OrderRequests ==
    {[order_num |-> n, field_type |-> "text", options_given |-> FALSE,
      options |-> EmptyOptions] : n \in {NULL} \cup 0..(NumFields + 1)}

FieldData(sc) == IF sc = "field_options" THEN OptionRequests ELSE OrderRequests

FieldScopes == {"field_options", "field_order"}

\* the Field rows a run can hold
DataFieldIds(sc) == IF sc = "field_options" THEN {1} ELSE FieldIds

FieldOps == {"create_field", "update_field", "perform_create"}

NoFieldData ==
    /\ fields = NoRows
    /\ wfields = NoRows
    /\ steps = NoRows
    /\ wsteps = NoRows
    /\ pc = "idle"
    /\ cur = NoCur
    /\ result = NoResult
    /\ required = {}
    /\ active = Forms
    /\ responses = NoRows
    /\ wresponses = NoRows
    /\ answers = {}
    /\ wanswers = {}
    /\ queue = {}
    /\ sent = {}
    /\ processes = NoRows
    /\ reply = NoReply
    /\ form_rows = NoRows
    /\ access = NoAccess
    /\ NoReports
    /\ NoLive

\* a caller of the service, or of the view, with its field_data; a new row
\* takes the first free id
field_request(op, id, f) ==
    /\ scope \in FieldScopes
    /\ pc = "idle"
    /\ IF op = "update_field"
       THEN id \in DOMAIN fields /\ f = fields[id].form
       ELSE /\ id \in DataFieldIds(scope) \ DOMAIN fields
            /\ \A j \in DataFieldIds(scope) \ DOMAIN fields : id <= j
            /\ (scope = "field_options" => f = "formA")
    /\ \E data \in FieldData(scope) :
           cur' = [op |-> op, id |-> id, form |-> f, data |-> data]
    /\ pc' = "field_request"
    /\ result' = NoResult
    /\ UNCHANGED <<fields, wfields, steps, wsteps, scope>>
    /\ UNCHANGED <<ingestVars, accessVars, auxVars>>

\* the row and the outcome of FieldService.create_field(user, form_id,
\* field_data): the default order_num, validate_field_options when
\* field_type is given, then Field.objects.create, whose save() runs clean()
CreateField(t, id, f, data) ==
    LET order_num == IF data.order_num = NULL
                     THEN DefaultOrderNum(FieldMaxOrder(t, f))
                     ELSE data.order_num
        options == IF data.options_given THEN data.options ELSE EmptyOptions
        row == [form |-> f, order_num |-> order_num,
                field_type |-> IF data.field_type = "absent" THEN ""
                               ELSE data.field_type,
                options |-> options]
        validated == IF data.field_type = "absent" THEN "ok"
                     ELSE validate_field_options(data.field_type, options)
        status == IF validated # "ok" THEN validated
                  ELSE IF clean(row.field_type, row.options) # "ok"
                  THEN "ValidationError"
                  ELSE IF FieldUniqueViolation(Insert(t, id, row), id, order_num)
                  THEN "IntegrityError"
                  ELSE "ok"
    IN [status |-> status, row |-> row]

\* the handler has run: its outcome, and the table when it stored a row
FieldDataDone(op, status, id, row) ==
    /\ IF status = "ok"
       THEN /\ fields' = Insert(fields, id, row)
            /\ wfields' = Insert(fields, id, row)
       ELSE UNCHANGED <<fields, wfields>>
    /\ result' = Result(op, status, id, row.form, 0, row.order_num)
    /\ pc' = "idle"
    /\ cur' = NoCur
    /\ UNCHANGED <<steps, wsteps, scope>>
    /\ UNCHANGED <<ingestVars, accessVars, auxVars>>

\* FieldService.create_field called with the field_data of the request
FieldService_create_field ==
    /\ pc = "field_request"
    /\ cur.op = "create_field"
    /\ LET c == CreateField(fields, cur.id, cur.form, cur.data)
       IN FieldDataDone("create_field", c.status, cur.id, c.row)

\* FieldViewSet.perform_create: field_data always carries 'order_num', 0 when
\* the request has none, and 'options', {} when the request has none
FieldViewSet_perform_create ==
    /\ pc = "field_request"
    /\ cur.op = "perform_create"
    /\ LET field_data == [cur.data EXCEPT
                             !.order_num = IF @ = NULL THEN 0 ELSE @,
                             !.options_given = TRUE]
           c == CreateField(fields, cur.id, cur.form, field_data)
       IN FieldDataDone("perform_create", c.status, cur.id, c.row)

\* the row and the outcome of FieldService.update_field: the options are
\* validated when field_type or options is in field_data, every key is set on
\* the row, and save() runs clean() and the UPDATE
UpdateField(t, id, data) ==
    LET field == t[id]
        field_type == IF data.field_type = "absent" THEN field.field_type
                      ELSE data.field_type
        options == IF data.options_given THEN data.options ELSE field.options
        row == [field EXCEPT !.field_type = field_type, !.options = options,
                             !.order_num = IF data.order_num = NULL THEN @
                                           ELSE data.order_num]
        validated == IF data.field_type # "absent" \/ data.options_given
                     THEN validate_field_options(field_type, options)
                     ELSE "ok"
        status == IF validated # "ok" THEN validated
                  ELSE IF clean(row.field_type, row.options) # "ok"
                  THEN "ValidationError"
                  ELSE IF FieldUniqueViolation(t, id, row.order_num)
                  THEN "IntegrityError"
                  ELSE "ok"
    IN [status |-> status, row |-> row]

FieldService_update_field ==
    /\ pc = "field_request"
    /\ cur.op = "update_field"
    /\ LET u == UpdateField(fields, cur.id, cur.data)
       IN FieldDataDone("update_field", u.status, cur.id, u.row)

NextFieldData ==
    \/ \E op \in FieldOps, id \in FieldIds, f \in Forms :
           field_request(op, id, f)
    \/ FieldService_create_field
    \/ FieldViewSet_perform_create
    \/ FieldService_update_field

InitFieldOptions == scope = "field_options" /\ NoFieldData

InitFieldOrder == scope = "field_order" /\ NoFieldData

SpecFieldOptions == InitFieldOptions /\ [][NextFieldData]_vars

SpecFieldOrder == InitFieldOrder /\ [][NextFieldData]_vars

\* ================================================================ summary
\* the longest list of answers of one field
MaxItems == 3

\* Counter.most_common(10)
TOP_VALUES == 10

\* Answer.value of the answers of a field: blank, padded, numerals, words,
\* and a word that float() reads
RawValues == {"", " ", "3", "4", "5", " 4", "red", "blue", "nan"}

ItemLists == UNION {[1..n -> RawValues] : n \in 0..MaxItems}

\* (it.value or "").strip()
strip(v) == IF v = " " THEN "" ELSE IF v = " 4" THEN "4" ELSE v

\* a float: not-a-number, or the fraction num/den
NaN == [nan |-> TRUE, num |-> 0, den |-> 1]

Float(num, den) == [nan |-> FALSE, num |-> num, den |-> den]

Numerals == ("3" :> 3) @@ ("4" :> 4) @@ ("5" :> 5)

\* float(v) does not raise
Parses(v) == v \in DOMAIN Numerals \/ v = "nan"

\* float(v)
float(v) == IF v = "nan" THEN NaN ELSE Float(Numerals[v], 1)

\* a < b on floats: False when either is not a number
Lt(a, b) == ~a.nan /\ ~b.nan /\ a.num * b.den < b.num * a.den

\* a <= b on floats
Le(a, b) == ~a.nan /\ ~b.nan /\ a.num * b.den <= b.num * a.den

\* a == b on floats
Eq(a, b) == ~a.nan /\ ~b.nan /\ a.num * b.den = b.num * a.den

\* the stripped non-blank values of the items, in order: those float() reads
\* when numeric is TRUE, the others when it is FALSE
RECURSIVE Stripped(_, _)
Stripped(items, numeric) ==
    IF items = <<>> THEN <<>>
    ELSE LET v == strip(Head(items))
             rest == Stripped(Tail(items), numeric)
         IN IF v # "" /\ Parses(v) = numeric THEN <<v>> \o rest ELSE rest

numeric_vals(items) ==
    LET s == Stripped(items, TRUE) IN [k \in DOMAIN s |-> float(s[k])]

text_vals(items) == Stripped(items, FALSE)

\* min(numeric_vals): a later value replaces the result when it compares less
RECURSIVE min(_)
min(vals) ==
    IF Len(vals) = 1 THEN vals[1]
    ELSE LET m == min(SubSeq(vals, 1, Len(vals) - 1))
         IN IF Lt(vals[Len(vals)], m) THEN vals[Len(vals)] ELSE m

\* max(numeric_vals)
RECURSIVE max(_)
max(vals) ==
    IF Len(vals) = 1 THEN vals[1]
    ELSE LET m == max(SubSeq(vals, 1, Len(vals) - 1))
         IN IF Lt(m, vals[Len(vals)]) THEN vals[Len(vals)] ELSE m

\* a + b on floats
Add(a, b) == IF a.nan \/ b.nan THEN NaN
             ELSE Float(a.num * b.den + b.num * a.den, a.den * b.den)

RECURSIVE Sum(_)
Sum(vals) == IF vals = <<>> THEN Float(0, 1) ELSE Add(Head(vals), Sum(Tail(vals)))

\* statistics.mean
mean(vals) ==
    LET t == Sum(vals) IN IF t.nan THEN NaN ELSE Float(t.num, t.den * Len(vals))

\* the arrangements sorted(vals) can return: the comparisons place no value
\* before one it compares less than; with a not-a-number among the values
\* there are several
Sortings(vals) ==
    {p \in [DOMAIN vals -> DOMAIN vals] :
        /\ \A i, j \in DOMAIN vals : i # j => p[i] # p[j]
        /\ \A i \in DOMAIN vals : i + 1 \in DOMAIN vals =>
               ~Lt(vals[p[i + 1]], vals[p[i]])}

\* statistics.median over data = sorted(vals) in the arrangement p
median(vals, p) ==
    LET n == Len(vals)
        data == [k \in DOMAIN vals |-> vals[p[k]]]
    IN IF n % 2 = 1 THEN data[(n + 1) \div 2]
       ELSE LET t == Add(data[n \div 2], data[n \div 2 + 1])
            IN IF t.nan THEN NaN ELSE Float(t.num, t.den * 2)

\* Counter(text_vals): the distinct values in the order they first occur
RECURSIVE Distinct(_)
Distinct(vals) ==
    IF vals = <<>> THEN <<>>
    ELSE LET d == Distinct(SubSeq(vals, 1, Len(vals) - 1))
             v == vals[Len(vals)]
         IN IF \E k \in DOMAIN d : d[k] = v THEN d ELSE Append(d, v)

Count(vals, v) == Cardinality({k \in DOMAIN vals : vals[k] = v})

\* sorted(..., key=count, reverse=True): stable, so ties keep the order of
\* first occurrence
RECURSIVE ByCount(_, _)
ByCount(vals, d) ==
    IF d = <<>> THEN <<>>
    ELSE LET k == CHOOSE i \in DOMAIN d :
                      /\ \A j \in DOMAIN d : Count(vals, d[j]) <= Count(vals, d[i])
                      /\ \A j \in 1..(i - 1) : Count(vals, d[j]) < Count(vals, d[i])
             rest == [j \in 1..(Len(d) - 1) |-> IF j < k THEN d[j] ELSE d[j + 1]]
         IN <<d[k]>> \o ByCount(vals, rest)

\* Counter(text_vals).most_common(10) as a list of {"value", "count"}
top_values(vals) ==
    LET d == ByCount(vals, Distinct(vals))
        n == IF Len(d) < TOP_VALUES THEN Len(d) ELSE TOP_VALUES
    IN [k \in 1..n |-> [value |-> d[k], count |-> Count(vals, d[k])]]

\* summary of one field; a key that is not set is has_numeric / has_text FALSE
FieldSummary(items, p) ==
    LET nums == numeric_vals(items)
        texts == text_vals(items)
    IN [has_numeric |-> nums # <<>>,
        count |-> Len(nums),
        min |-> IF nums = <<>> THEN NaN ELSE min(nums),
        max |-> IF nums = <<>> THEN NaN ELSE max(nums),
        mean |-> IF nums = <<>> THEN NaN ELSE mean(nums),
        median |-> IF nums = <<>> THEN NaN ELSE median(nums, p),
        has_text |-> texts # <<>>,
        top_values |-> IF texts = <<>> THEN <<>> ELSE top_values(texts)]

\* the answers of one field, before the report is built
InitSummary ==
    /\ scope = "summary"
    /\ fields = NoRows
    /\ wfields = NoRows
    /\ steps = NoRows
    /\ wsteps = NoRows
    /\ pc = "summary"
    /\ cur \in {[items |-> s] : s \in ItemLists}
    /\ result = NoResult
    /\ required = {}
    /\ active = Forms
    /\ responses = NoRows
    /\ wresponses = NoRows
    /\ answers = {}
    /\ wanswers = {}
    /\ queue = {}
    /\ sent = {}
    /\ processes = NoRows
    /\ reply = NoReply
    /\ form_rows = NoRows
    /\ access = NoAccess
    /\ NoReports
    /\ NoLive

\* ReportService._build_summary, the statistics of one field
build_summary ==
    /\ scope = "summary"
    /\ pc = "summary"
    /\ \E p \in Sortings(numeric_vals(cur.items)) :
           reply' = FieldSummary(cur.items, p)
    /\ pc' = "summary_done"
    /\ UNCHANGED <<orderVars, cur, result, ingestVars, processes, auxVars>>

NextSummary == build_summary

SpecSummary == InitSummary /\ [][NextSummary]_vars

\* ================================================================ concurrent
\* two requests served at the same time
Workers == {"w1", "w2"}

\* no request is being served by the worker
NoWork == [form |-> "none", max_order |-> 0]

InitConcurrent ==
    /\ scope = "concurrent"
    /\ fields = NoRows
    /\ wfields = NoRows
    /\ steps = NoRows
    /\ wsteps = NoRows
    /\ pc = [w \in Workers |-> "idle"]
    /\ cur = [w \in Workers |-> NoWork]
    /\ result = NoResult
    /\ required = {}
    /\ active = Forms
    /\ responses = NoRows
    /\ wresponses = NoRows
    /\ answers = {}
    /\ wanswers = {}
    /\ queue = {}
    /\ sent = {}
    /\ processes = NoRows
    /\ reply = NoReply
    /\ form_rows = NoRows
    /\ access = NoAccess
    /\ NoReports
    /\ NoLive

\* create_field without 'order_num', first statement: the aggregate is read.
\* No transaction is open, so the other request may run before the INSERT.
\* Runs stop creating once a form's largest order_num has passed NumFields
create_field_read(w, f) ==
    /\ scope = "concurrent"
    /\ pc[w] = "idle"
    /\ Cardinality(DOMAIN fields) + Cardinality({v \in Workers : pc[v] # "idle"})
           < NumFields
    /\ FieldMaxOrder(fields, f) <= NumFields
    /\ pc' = [pc EXCEPT ![w] = "cf_insert"]
    /\ cur' = [cur EXCEPT ![w] = [form |-> f,
                                  max_order |-> FieldMaxOrder(fields, f)]]
    /\ UNCHANGED <<fields, wfields, steps, wsteps, scope, result>>
    /\ UNCHANGED <<ingestVars, accessVars, auxVars>>

\* create_field, Field.objects.create with order_num = max_order + 1; the
\* IntegrityError of the unique constraint is not caught
create_field_insert(w) ==
    /\ scope = "concurrent"
    /\ pc[w] = "cf_insert"
    /\ LET id == CHOOSE i \in FieldIds \ DOMAIN fields :
                     \A j \in FieldIds \ DOMAIN fields : i <= j
           row == [form |-> cur[w].form,
                   order_num |-> DefaultOrderNum(cur[w].max_order)]
           t == Insert(fields, id, row)
       IN IF FieldUniqueViolation(t, id, row.order_num)
          THEN /\ result' = Result("create_field", "IntegrityError", id,
                                   row.form, 0, row.order_num)
               /\ UNCHANGED <<fields, wfields>>
          ELSE /\ fields' = t
               /\ wfields' = t
               /\ result' = Result("create_field", "ok", id, row.form, 0,
                                   row.order_num)
    /\ pc' = [pc EXCEPT ![w] = "idle"]
    /\ cur' = [cur EXCEPT ![w] = NoWork]
    /\ UNCHANGED <<steps, wsteps, scope>>
    /\ UNCHANGED <<ingestVars, accessVars, auxVars>>

\* the table after delete_field has run from start to commit with nothing in
\* between: the field is gone and every later field of its form is one lower
DeletedField(t, id) ==
    LET rest == Remove(t, id)
    IN [j \in DOMAIN rest |->
           IF rest[j].form = t[id].form /\ rest[j].order_num > t[id].order_num
           THEN [rest[j] EXCEPT !.order_num = @ - 1]
           ELSE rest[j]]

\* delete_field served by a worker while the other request is between its
\* two statements
delete_field_whole(w, id) ==
    /\ scope = "concurrent"
    /\ pc[w] = "idle"
    /\ id \in DOMAIN fields
    /\ fields' = DeletedField(fields, id)
    /\ wfields' = DeletedField(fields, id)
    /\ result' = Result("delete_field", "ok", id, fields[id].form,
                        fields[id].order_num, 0)
    /\ UNCHANGED <<steps, wsteps, scope, pc, cur>>
    /\ UNCHANGED <<ingestVars, accessVars, auxVars>>

NextConcurrent ==
    \/ \E w \in Workers, f \in Forms : create_field_read(w, f)
    \/ \E w \in Workers : create_field_insert(w)
    \/ \E w \in Workers, id \in FieldIds : delete_field_whole(w, id)

SpecConcurrent == InitConcurrent /\ [][NextConcurrent]_vars

\* ================================================================ claims
\* order_num values of the rows S of table t are exactly 1..count, once each
Dense(t, S) == {t[i].order_num : i \in S} = 1..Cardinality(S)

AllDense(tf, ts) ==
    /\ \A f \in Forms : Dense(tf, FormFields(tf, f))
    /\ \A p \in Processes : Dense(ts, ProcessSteps(ts, p))

\* C1: whenever no request is running (every create without order_num,
\* delete and valid reorder so far has run to its end, one at a time, from
\* empty forms and processes), the fields of every form and the steps of
\* every process hold exactly the order_num values 1..count, once each.
C1_OrderDensity == pc = "idle" => AllDense(fields, steps)

\* a delete of the first of three fields of a form has completed, and so has
\* renumbered two siblings
C1_Witness ==
    /\ pc = "idle"
    /\ result.op = "delete_field" /\ result.status = "ok"
    /\ result.old_order = 1
    /\ Cardinality(FormFields(fields, result.parent)) = 2

\* C2: a reorder_field that commits a move of the field at old_order o of a
\* dense form to a valid n leaves the field at n, every sibling that was in
\* (o, n] one lower (n > o), every sibling that was in [n, o) one higher
\* (n < o), nothing changed when n = o, and every other row as it was.
MovedTo(t, u, id, o, n) ==
    /\ DOMAIN u = DOMAIN t
    /\ \A j \in DOMAIN t : u[j].form = t[j].form
    /\ u[id].order_num = n
    /\ \A j \in DOMAIN t \ {id} :
         u[j].order_num =
            IF t[j].form = t[id].form /\ n > o
               /\ o < t[j].order_num /\ t[j].order_num <= n
            THEN t[j].order_num - 1
            ELSE IF t[j].form = t[id].form /\ n < o
                    /\ n <= t[j].order_num /\ t[j].order_num < o
            THEN t[j].order_num + 1
            ELSE t[j].order_num

ReorderFieldDone ==
    /\ pc \in {"idle", "rf_shift"}
    /\ pc' = "idle"
    /\ result'.op = "reorder_field"
    /\ result'.status = "ok"

DeleteFieldDone ==
    /\ pc = "df_renum"
    /\ pc' = "idle"
    /\ result'.status = "ok"

C3_DeleteFieldEffect ==
    [][DeleteFieldDone =>
          LET id == result'.id
              d == fields[id].order_num
              f == fields[id].form
          IN /\ DOMAIN fields' = DOMAIN fields \ {id}
             /\ \A j \in DOMAIN fields' :
                  /\ fields'[j].form = fields[j].form
                  /\ fields'[j].order_num =
                        IF fields[j].form = f /\ fields[j].order_num > d
                        THEN fields[j].order_num - 1
                        ELSE fields[j].order_num
             /\ \A j, k \in FormFields(fields', f) :
                  fields[j].order_num < fields[k].order_num
                     <=> fields'[j].order_num < fields'[k].order_num]_vars

\* orders 1,2,3 with the middle one deleted: one sibling before the deleted
\* field, one after it
C3_Witness ==
    /\ pc = "idle"
    /\ result.op = "delete_field" /\ result.status = "ok"
    /\ result.old_order = 2
    /\ {fields[j].order_num : j \in FormFields(fields, result.parent)} = {1, 2}

\* C4: a reorder request (field or step) ends in a validation error exactly
\* when its target is below 1 or above the number of siblings in the parent,
\* and a reorder that fails in any way changes no committed row.
ReorderDone ==
    /\ pc \in {"idle", "rf_shift", "rs_shift"}
    /\ pc' = "idle"
    /\ result'.op \in {"reorder_field", "reorder_process_step"}

SiblingCount(op, parent) ==
    IF op = "reorder_field"
    THEN Cardinality(FormFields(fields, parent))
    ELSE Cardinality(ProcessSteps(steps, parent))

C5_CommittedAllOrNothing == AllDense(fields, steps)

\* ---------------------------------------------------------------- ingest
SubmitOps == {"submit_response", "submit_response_consolidated"}

\* the positions of a running submit_response of response_service
ServicePcs == {"sr_validate", "cwa_loop"}

\* the positions of a running submit_response of either implementation
SubmitPcs == ServicePcs \cup {"csr_validate", "csr_loop"}

SubmitRunning == pc \in SubmitPcs

\* the committed tables gained one Response of the submitted form and one
\* Answer of it per entry of answers_data, and nothing else changed
SubmitStored ==
    \E r \in ResponseIds \ DOMAIN responses :
        /\ responses' = Insert(responses, r, [form |-> cur.parent])
        /\ answers' = answers \cup
               {[response |-> r, field |-> cur.answers_data[k].field_id,
                 value |-> cur.answers_data[k].value] :
                    k \in DOMAIN cur.answers_data}
        /\ Cardinality(answers' \ answers) = Len(cur.answers_data)

\* C6: every step of a running submit_response (either implementation)
\* leaves the committed Response and Answer rows as they were, except the
\* step that ends it with success, which adds exactly one Response and
\* exactly one Answer per submitted (field, value) pair; so a failure at any
\* point stores nothing and no partly written Response is ever committed.
C6_SubmitAtomic ==
    [][SubmitRunning =>
         (IF pc' = "idle" /\ result'.status = "ok"
          THEN SubmitStored
          ELSE responses' = responses /\ answers' = answers)]_vars

\* a submit failed on its second Answer, after the Response row and the first
\* Answer were written, while another Response was stored
C6_Witness ==
    /\ pc = "idle"
    /\ result.op \in SubmitOps
    /\ result.status = "IntegrityError"
    /\ DOMAIN responses # {}

\* every answer of the submission names a field of form f
AllOfForm(f, answers_data) ==
    \A k \in DOMAIN answers_data : answers_data[k].field_id \in FormFields(fields, f)

\* every required field of form f is named by some answer of the submission
Covers(f, answers_data) ==
    \A i \in FormFields(fields, f) :
        i \in required => \E k \in DOMAIN answers_data : answers_data[k].field_id = i

\* no field id is named by two answers of the submission
NoRepeat(answers_data) ==
    \A k, l \in DOMAIN answers_data :
        answers_data[k].field_id = answers_data[l].field_id => k = l

\* C7: a submit_response (either implementation) for an active form whose
\* answers all name fields of the form fails exactly when some required
\* field of the form is named by no answer.
C7_RequiredCoverage ==
    [][(/\ pc \in SubmitPcs
        /\ pc' = "idle"
        /\ cur.parent \in active
        /\ AllOfForm(cur.parent, cur.answers_data))
       => (result'.status # "ok" <=> ~Covers(cur.parent, cur.answers_data))]_vars

\* C8 as stated: a submit_response of response_service for an active form
\* that covers every required field fails exactly when some answer names a
\* field that is not of the form, and then stores nothing.
C8_MembershipAsStated ==
    [][(/\ pc \in ServicePcs
        /\ pc' = "idle"
        /\ cur.parent \in active
        /\ Covers(cur.parent, cur.answers_data))
       => (/\ result'.status # "ok" <=> ~AllOfForm(cur.parent, cur.answers_data)
           /\ result'.status # "ok" =>
                  (responses' = responses /\ answers' = answers))]_vars

\* C8: a submit_response of response_service for an active form that covers
\* every required field and names no field id twice fails exactly when some
\* answer names a field that is not of the form (a field of another form or
\* of no form), and then stores no Response and no Answer.
C8_Membership ==
    [][(/\ pc \in ServicePcs
        /\ pc' = "idle"
        /\ cur.parent \in active
        /\ Covers(cur.parent, cur.answers_data)
        /\ NoRepeat(cur.answers_data))
       => (/\ result'.status # "ok" <=> ~AllOfForm(cur.parent, cur.answers_data)
           /\ result'.status # "ok" =>
                  (responses' = responses /\ answers' = answers))]_vars

\* a submission to formA that answered its required fields was refused for a
\* field id that is not of formA, with the tables left as they were
C8_Witness ==
    /\ pc = "idle"
    /\ result.op = "submit_response"
    /\ result.status = "InvalidField"
    /\ result.parent = "formA"
    /\ required # {}
    /\ responses = wresponses /\ answers = wanswers

\* the write message m tells of is in the tables R, A
Visible(m, R, A) ==
    LET there == IF m.model = "Response"
                 THEN m.response \in DOMAIN R /\ R[m.response].form = m.form
                 ELSE \E a \in A : a.response = m.response /\ a.field = m.field
    IN IF m.signal = "post_save" THEN there ELSE ~there

\* C9: a message is delivered only in a step after which the write it tells
\* of is committed; a request that ends in failure has delivered nothing; and
\* a step that commits the creation or deletion of a Response or Answer row
\* delivers a message for that row to the group of the row's form.
C9_BroadcastAfterCommit ==
    [][(/\ \A m \in sent' \ sent : Visible(m, responses', answers')
        /\ (pc' = "idle" /\ result'.status \notin {"ok", "none"}) => sent' = {}
        /\ \A r \in DOMAIN responses' \ DOMAIN responses :
               Message(responses'[r].form, "Response", "post_save", r, 0) \in sent'
        /\ \A r \in DOMAIN responses \ DOMAIN responses' :
               Message(responses[r].form, "Response", "post_delete", r, 0) \in sent'
        /\ \A a \in answers' \ answers :
               Message(responses'[a.response].form, "Answer", "post_save",
                       a.response, a.field) \in sent'
        /\ \A a \in answers \ answers' :
               Message(responses[a.response].form, "Answer", "post_delete",
                       a.response, a.field) \in sent')]_vars

\* a submit has committed a Response with two Answers and its three messages
\* are out
C9_Witness ==
    /\ pc = "idle"
    /\ result.op \in SubmitOps
    /\ result.status = "ok"
    /\ Cardinality(sent) = 3
    /\ \A m \in sent : Visible(m, responses, answers)

\* ---------------------------------------------------------------- workflow
\* C10: a workflow request (get_process_steps, get_current_step,
\* get_process_progress or complete_step) for a process that is not public,
\* sent with no password or with one that differs from the process's
\* access_password, is answered 401 with no step, progress or response data
\* and stores no Response and no Answer.
C10_PrivateAccess ==
    [][(/\ reply'.op # "none"
        /\ ~processes[reply'.process].is_public
        /\ reply'.password # processes[reply'.process].access_password)
       => (/\ reply'.status = 401
           /\ reply'.body = "detail"
           /\ responses' = responses
           /\ answers' = answers)]_vars

\* ---------------------------------------------------------------- form access
\* C11: a validate_form_access call on an active form ends granted exactly
\* when the form is public, or the password is given, not empty and equal to
\* the stored access_password; so a private form refuses a missing, empty or
\* different password and a public form grants whatever the password is.
C11_FormAccess ==
    access.outcome # "none" /\ form_rows[access.form].is_active =>
        LET row == form_rows[access.form]
        IN access.outcome = "granted" <=>
               \/ row.is_public
               \/ /\ access.password \notin {"NULL", ""}
                  /\ access.password = row.access_password

\* a private active form with a stored password refused a different one
C11_Witness ==
    /\ access.outcome = "Invalid password."
    /\ ~form_rows[access.form].is_public
    /\ form_rows[access.form].access_password = "secret"
    /\ access.password = "wrong"

\* the caller of the request that reply r answers may use the process: it is
\* public or the password sent is its access_password
Entitled(r) ==
    \/ processes[r.process].is_public
    \/ r.password = processes[r.process].access_password

\* the steps of process p whose form has no Response
NotCompleted(p) ==
    {i \in ProcessSteps(steps, p) :
        \A r \in DOMAIN responses : responses[r].form # steps[i].form}

\* C12: get_current_step of an entitled caller on a linear process answers
\* 200 with the not completed step of smallest order_num and that step's
\* form, and with is_completed = true and no step when no step is left.
C12_CurrentStep ==
    [][(/\ reply'.op = "get_current_step"
        /\ processes[reply'.process].process_type = "linear"
        /\ Entitled(reply'))
       => LET todo == NotCompleted(reply'.process)
          IN /\ reply'.status = 200
             /\ IF todo = {}
                THEN reply'.is_completed = "true" /\ reply'.data = <<>>
                ELSE \E i \in todo :
                        /\ \A j \in todo : steps[i].order_num <= steps[j].order_num
                        /\ reply'.data = <<i>>
                        /\ reply'.form = steps[i].form
                        /\ reply'.is_completed = "false"]_vars

\* the steps of process p
StepsOf(p) == ProcessSteps(steps, p)

\* C13: get_process_progress of an entitled caller reports the number of steps,
\* the number of completed ones, their ratio times 100 rounded to 2 decimals
\* (0 for no step), and is_complete exactly when that percentage is 100.
C13_Progress ==
    [][(reply'.op = "get_process_progress" /\ Entitled(reply'))
       => LET total == Cardinality(StepsOf(reply'.process))
              completed == total - Cardinality(NotCompleted(reply'.process))
              exact == IF total = 0 THEN 0 ELSE (completed * 10000) \div total
              left == IF total = 0 THEN 0 ELSE (completed * 10000) % total
              nearest == IF 2 * left >= total /\ total > 0
                         THEN exact + 1 ELSE exact
          IN /\ reply'.status = 200
             /\ reply'.data = <<total, completed>>
             /\ reply'.percentage.hundredths = nearest
             /\ reply'.percentage.rest = 0
             /\ (reply'.is_complete = "true") <=> (nearest = 10000)]_vars

\* C14: get_current_step of an entitled caller on a free process answers 200
\* with every step of the process, each with its own completion flag.
C14_FreeSteps ==
    [][(/\ reply'.op = "get_current_step"
        /\ processes[reply'.process].process_type = "free"
        /\ Entitled(reply'))
       => /\ reply'.status = 200
          /\ Len(reply'.data) = Cardinality(StepsOf(reply'.process))
          /\ {reply'.data[k] : k \in DOMAIN reply'.data} = StepsOf(reply'.process)
          /\ DOMAIN reply'.flags = DOMAIN reply'.data
          /\ \A k \in DOMAIN reply'.data :
                reply'.flags[k] <=> reply'.data[k] \notin NotCompleted(reply'.process)]_vars

\* C15: complete_step on a step of a linear process is accepted (201) only
\* when every step of that process with a smaller order_num is completed
\* before the call.
C15_InOrder ==
    [][(/\ reply'.op = "complete_step"
        /\ reply'.status = 201
        /\ processes[reply'.process].process_type = "linear")
       => \A i \in StepsOf(reply'.process) :
             steps[i].order_num < steps[reply'.step].order_num
                => i \notin NotCompleted(reply'.process)]_vars

\* weekly and monthly reports, and the days between two runs of one
Scheduled(r) == reports[r].schedule_type \in {"weekly", "monthly"}

Period(r) == IF reports[r].schedule_type = "weekly" THEN WEEK ELSE MONTH

\* the step that ends a run_due_reports task
SweepEnds == sweep.pc = "loop" /\ sweep'.pc = "idle"

\* C16: a sweep at time t returns, with the number of reports it executed;
\* it executed each of them once; every executed weekly or monthly report
\* has next_run = t + 7 or t + 30 days; and no active weekly or monthly
\* report is left with next_run <= t, whatever happened to the others.
C16_Sweep ==
    [][SweepEnds
       => /\ sweep'.outcome = "returned"
          /\ sweep'.returned = Len(sweep'.executed)
          /\ \A k, l \in DOMAIN sweep'.executed :
                sweep'.executed[k] = sweep'.executed[l] => k = l
          /\ \A k \in DOMAIN sweep'.executed :
                Scheduled(sweep'.executed[k])
                   => reports'[sweep'.executed[k]].next_run
                         = sweep'.now + Period(sweep'.executed[k])
          /\ \A r \in ReportIds :
                (reports'[r].is_active /\ Scheduled(r) /\ reports'[r].next_run # NULL)
                   => reports'[r].next_run > sweep'.now]_vars

\* C17: no run_once that run_due_reports makes is on a manual report.
C17_ManualNeverSwept ==
    /\ \A k \in DOMAIN sweep.executed :
          reports[sweep.executed[k]].schedule_type # "manual"
    /\ last_run.by = "sweep" => reports[last_run.report].schedule_type # "manual"

\* C18: every run_once returns: no exception leaves deliver. When the
\* delivery failed the return carries the payload and the failed result, and
\* a weekly or monthly report has next_run moved by its period.
C18_DeliveryNeverRaises ==
    [][last_run' # last_run
       => /\ last_run'.status = "returned"
          /\ last_run'.delivery = "failed"
                => /\ last_run'.payload \in REPORT_TYPES
                   /\ ~last_run'.delivered
                   /\ Scheduled(last_run'.report)
                         => reports'[last_run'.report].next_run
                               = last_run'.now + Period(last_run'.report)]_vars

\* connection c was tried and refused
Refused(c) == conns[c].close_code \in {4403, 4404}

\* the form the URL of connection c names, "none" when it names none
NamedForm(c) ==
    LET id == UUID(conns[c].raw)
    IN IF id \in DOMAIN form_rows THEN id ELSE "none"

\* who may watch the form that connection c names
MayView(c) ==
    \/ form_rows[NamedForm(c)].is_public
    \/ conns[c].user = FormOwner
    \/ Users[conns[c].user].is_staff

\* C19: a refused connection is closed with 4404 when its form id is
\* malformed or names no form and with 4403 when the form exists; it is in
\* no group and has received nothing.
C19_RefusedConnection ==
    \A c \in Channels :
        Refused(c)
           => /\ conns[c].close_code = IF NamedForm(c) = "none" THEN 4404 ELSE 4403
              /\ \A f \in Forms : c \notin groups[f]
              /\ conns[c].inbox = <<>>

\* C20: a connection tried on an existing form is refused exactly when the
\* requester is neither the owner nor staff and the form is not public; an
\* accepted one is in the form's group until it disconnects, and the first
\* message it receives is init.
C20_AcceptedConnection ==
    \A c \in Channels :
        (conns[c].state # "none" /\ NamedForm(c) # "none")
           => /\ Refused(c) <=> ~MayView(c)
              /\ conns[c].state \in {"accepted", "open"}
                    => c \in groups[NamedForm(c)]
              /\ conns[c].inbox # <<>> => conns[c].inbox[1].type = "init"

\* C21: every update message a connection has received carries a report of
\* the type the connection asked for at connect.
C21_UpdateHonoursType ==
    \A c \in Channels :
        \A k \in DOMAIN conns[c].inbox :
            conns[c].inbox[k].type = "update"
               => conns[c].inbox[k].payload.type = conns[c].report_type

\* a create_field request has just been answered
CreateFieldDone == result'.op = "create_field" /\ result' # result

\* C22: create_field without order_num succeeds, gives the new field the
\* largest order_num of the form's fields plus 1 (1 for a form without
\* fields) and leaves every existing field as it was.
C22_CreateAutoOrder ==
    [][CreateFieldDone
       => LET id == result'.id
              f == result'.parent
              held == {fields[i].order_num : i \in FormFields(fields, f)}
          IN /\ result'.status = "ok"
             /\ DOMAIN fields' = DOMAIN fields \cup {id}
             /\ fields'[id].form = f
             /\ fields'[id].order_num =
                   IF held = {} THEN 1
                   ELSE (CHOOSE m \in held : \A x \in held : x <= m) + 1
             /\ \A i \in DOMAIN fields : fields'[i] = fields[i]]_vars

\* a field was created second in its form while the other form has a field
C22_Witness ==
    /\ result.op = "create_field" /\ result.status = "ok"
    /\ result.new_order = 2
    /\ result.id \in DOMAIN fields
    /\ fields[result.id].order_num = 2
    /\ \E i \in DOMAIN fields : fields[i].form # result.parent

\* a reorder_field request with a valid target has just been answered
ReorderFieldAnswered ==
    /\ pc \in {"idle", "rf_shift"}
    /\ pc' = "idle"
    /\ result'.op = "reorder_field"
    /\ result'.status # "ValidationError"
    /\ (pc = "idle" => result' # result)

\* C23: every reorder of an item of a dense form from n to a valid o is
\* carried out and undoes the move from o to n: moving the item from o to n
\* in the form it leaves gives back the form it started from. So a move from
\* o to n followed by the move from n to o restores every sibling.
C23_MoveBack ==
    [][(ReorderFieldAnswered /\ Dense(fields, FormFields(fields, result'.parent)))
       => /\ result'.status = "ok"
          /\ MovedTo(fields', fields, result'.id, result'.new_order,
                     result'.old_order)]_vars

\* every stored private form has a password
PrivateHasPassword(t) ==
    \A f \in DOMAIN t : ~t[f].is_public => t[f].access_password \notin {"NULL", ""}

\* C24: every form create and update, through the services or a viewset,
\* leaves every private form with a non-empty access_password, and a request
\* that is rejected leaves the forms as they were.
C24_PrivateHasPassword ==
    [][/\ PrivateHasPassword(form_rows')
       /\ result'.status = "ValidationError" => form_rows' = form_rows]_vars

\* C25: after any sequence of submissions, answer and response creations,
\* updates and deletions, every stored answer references a field of the form
\* of its response and no response has two answers for one field; an
\* operation that is refused leaves the stored rows as they were
AnswersConsistent(R, A) ==
    /\ \A a \in A : /\ a.response \in DOMAIN R
                    /\ a.field \in DOMAIN fields
                    /\ fields[a.field].form = R[a.response].form
    /\ \A a, b \in A : (a.response = b.response /\ a.field = b.field) => a = b

C25_AnswerIntegrity ==
    [][/\ AnswersConsistent(responses', answers')
       /\ (result'.status \notin {"ok", "none"} =>
              (responses' = responses /\ answers' = answers))]_vars

\* the rule of a field type is violated: choices empty or with an entry that
\* lacks its value or its label; a rating or a number with min_value >=
\* max_value or step <= 0; a file with no allowed_types or max_size <= 0
ViolatesRule(field_type, options) ==
    \/ /\ field_type \in ChoiceTypes
       /\ \/ Len(options.choices.items) = 0
          \/ \E k \in DOMAIN options.choices.items :
                 options.choices.items[k] # "full"
    \/ /\ field_type \in {"rating", "number"}
       /\ \/ /\ options.min_value.kind = "num"
             /\ options.max_value.kind = "num"
             /\ options.min_value.n >= options.max_value.n
          \/ options.step.kind = "num" /\ options.step.n <= 0
    \/ /\ field_type = "file"
       /\ \/ options.allowed_types \in {"absent", "empty"}
          \/ options.max_size.kind = "num" /\ options.max_size.n <= 0

\* the request being handled is a create_field, or an update_field that
\* carries field_type or options, whose type and options violate the rule
RequestViolatesRule ==
    /\ pc = "field_request"
    /\ \/ /\ cur.op = "create_field"
          /\ cur.data.field_type # "absent"
          /\ ViolatesRule(cur.data.field_type,
                          IF cur.data.options_given THEN cur.data.options
                          ELSE EmptyOptions)
       \/ /\ cur.op = "update_field"
          /\ (cur.data.field_type # "absent" \/ cur.data.options_given)
          /\ ViolatesRule(IF cur.data.field_type = "absent"
                          THEN fields[cur.id].field_type
                          ELSE cur.data.field_type,
                          IF cur.data.options_given THEN cur.data.options
                          ELSE fields[cur.id].options)

\* C26: create_field, and update_field when field_type or options is given,
\* with options that violate the rule of the field type fails with a
\* validation error and leaves the stored fields and their attributes
\* unchanged
C26_InvalidOptionsRefused ==
    [][RequestViolatesRule =>
          (result'.status = "ValidationError" /\ fields' = fields)]_vars

\* an update of a stored number field was refused with a validation error
C26_Witness ==
    /\ result.op = "update_field"
    /\ result.status = "ValidationError"
    /\ 1 \in DOMAIN fields
    /\ fields[1].field_type = "number"
    /\ fields[1].options.min_value = Num(0)

\* C30: whichever way order_num is written at the service boundary
\* (create_field with an order_num of the caller, the view's create, which
\* always supplies one, update_field with order_num), the order_num values of
\* every form are exactly 1..count afterwards, or the request is rejected and
\* the fields are unchanged
C30_DenseAtBoundary ==
    [][pc = "field_request" =>
          /\ \A f \in Forms : Dense(fields', FormFields(fields', f))
          /\ (result'.status # "ok" => fields' = fields)]_vars

\* C27: the numeric statistics of a field count the values that parse as
\* numbers, with min <= median <= max and min <= mean <= max ("3", "5", "4"
\* give 3, 3, 5, 4, 4); the text statistics list at most 10 distinct values
\* with their exact counts, in non-increasing order of count
SummaryBuilt == pc = "summary_done"

C27_SummaryStatistics ==
    SummaryBuilt =>
        LET nums == Stripped(cur.items, TRUE)
            texts == Stripped(cur.items, FALSE)
            top == reply.top_values
        IN /\ reply.has_numeric = (nums # <<>>)
           /\ reply.has_numeric =>
                 /\ reply.count = Len(nums)
                 /\ Le(reply.min, reply.median) /\ Le(reply.median, reply.max)
                 /\ Le(reply.min, reply.mean) /\ Le(reply.mean, reply.max)
           /\ cur.items = <<"3", "5", "4">> =>
                 /\ reply.count = 3
                 /\ Eq(reply.min, Float(3, 1)) /\ Eq(reply.max, Float(5, 1))
                 /\ Eq(reply.mean, Float(4, 1)) /\ Eq(reply.median, Float(4, 1))
           /\ Len(top) <= 10
           /\ \A k \in DOMAIN top :
                 /\ top[k].count = Count(texts, top[k].value)
                 /\ top[k].count > 0
                 /\ \A j \in DOMAIN top :
                        /\ (j # k => top[j].value # top[k].value)
                        /\ (j < k => top[j].count >= top[k].count)

\* C29: during a reorder or a delete no row write gives a field an order_num
\* that a sibling holds at that moment, whichever row of the bulk shift is
\* written next, and the parked field holds a value outside 1..N+1
ShiftedOrder(r) == wfields[r].order_num + ShiftDelta(cur.old_order, cur.new_order)

C29_NoTransientDuplicate ==
    /\ \A i, j \in DOMAIN wfields :
           (i # j /\ wfields[i].form = wfields[j].form) =>
               wfields[i].order_num # wfields[j].order_num
    /\ pc = "rf_shift" =>
           /\ \A r \in cur.pending :
                  ~FieldUniqueViolation(wfields, r, ShiftedOrder(r))
           /\ wfields[cur.id].order_num \notin
                  1..(Cardinality(FormFields(wfields, cur.parent)) + 1)

\* C28: when two ordering requests on a form overlap, each having read the
\* orders before the other commits, no integrity error reaches a caller and,
\* once both are done, the order_num values of every form are exactly
\* 1..count
C28_ConcurrentOrdering ==
    /\ result.status # "IntegrityError"
    /\ (\A w \in Workers : pc[w] = "idle") =>
           \A f \in Forms : Dense(fields, FormFields(fields, f))

====
